---- MODULE Spec2Model ----
(***************************************************************************)
(* TriAI: the MCP tool dispatch layer (MCPToolProvider,                    *)
(* PostgreSQLMCPToolProvider, SQLServerMCPToolProvider) over its DataLink  *)
(* backends (MockDataLink, PostgreSQLDataLink, DataLink).                  *)
(*                                                                         *)
(* Text is modelled as a sequence of one-character strings, so that        *)
(* lower(), strip(), startswith(), `in`, split() and int() are computed    *)
(* as Python computes them.  A Python dict is a TLA+ record; its key set   *)
(* is its DOMAIN.                                                          *)
(***************************************************************************)
EXTENDS Integers, Sequences, FiniteSets, TLC

VARIABLES
    kind,          \* which provider/backend pair main.py constructed
    mock_tables,   \* MockDataLink.mock_tables
    log_entries,   \* <backend>.log_entries (message kinds, oldest first)
    wasError,      \* <backend>.wasError
    pc,            \* where the current execute_tool call is: "idle", "called", "returned"
    tool_name,     \* argument of the current execute_tool call ("" when idle)
    parameters,    \* argument of the current execute_tool call
    result,        \* envelope returned by the current execute_tool call
    calls          \* backend methods invoked during the current execute_tool call

vars == <<kind, mock_tables, log_entries, wasError, pc, tool_name, parameters, result, calls>>

---------------------------------------------------------------------------
(* Bounds of the model.                                                    *)

\* the log keeps the last LogCap entries (1000 in the program)
LogCap == 2
\* row_limit / limit arguments range over 0..MaxRowLimit
MaxRowLimit == 2
\* measured execution time in milliseconds ranges over 0..MaxExecMs
MaxExecMs == 1

---------------------------------------------------------------------------
(* Python str operations.                                                  *)

UpperToLower ==
    [c \in {"A","B","C","D","E","F","G","H","I","J","K","L","M","N","O","P","Q",
            "R","S","T","U","V","W","X","Y","Z"} |->
       CASE c = "A" -> "a" [] c = "B" -> "b" [] c = "C" -> "c" [] c = "D" -> "d"
         [] c = "E" -> "e" [] c = "F" -> "f" [] c = "G" -> "g" [] c = "H" -> "h"
         [] c = "I" -> "i" [] c = "J" -> "j" [] c = "K" -> "k" [] c = "L" -> "l"
         [] c = "M" -> "m" [] c = "N" -> "n" [] c = "O" -> "o" [] c = "P" -> "p"
         [] c = "Q" -> "q" [] c = "R" -> "r" [] c = "S" -> "s" [] c = "T" -> "t"
         [] c = "U" -> "u" [] c = "V" -> "v" [] c = "W" -> "w" [] c = "X" -> "x"
         [] c = "Y" -> "y" [] c = "Z" -> "z"]

\* s.lower()
str_lower(s) ==
    [i \in 1..Len(s) |-> IF s[i] \in DOMAIN UpperToLower THEN UpperToLower[s[i]] ELSE s[i]]

Whitespace == {" ", "\n", "\t"}

\* s.strip(chars)
str_strip_chars(s, chars) ==
    LET keep == {i \in 1..Len(s) : s[i] \notin chars}
    IN  IF keep = {} THEN <<>>
        ELSE SubSeq(s, CHOOSE i \in keep : \A j \in keep : i <= j,
                       CHOOSE i \in keep : \A j \in keep : i >= j)

\* s.strip()
str_strip(s) == str_strip_chars(s, Whitespace)

\* s.rstrip(chars)
str_rstrip_chars(s, chars) ==
    LET keep == {i \in 1..Len(s) : s[i] \notin chars}
    IN  IF keep = {} THEN <<>>
        ELSE SubSeq(s, 1, CHOOSE i \in keep : \A j \in keep : i >= j)

\* s.startswith(p)
str_startswith(s, p) == Len(p) <= Len(s) /\ SubSeq(s, 1, Len(p)) = p

\* the positions at which p occurs in s
Occurrences(s, p) == {i \in 1..(Len(s) - Len(p) + 1) : SubSeq(s, i, i + Len(p) - 1) = p}

\* p in s
str_contains(s, p) == Occurrences(s, p) # {}

\* s.find(p), 1-based; 0 when absent
str_find(s, p) ==
    IF str_contains(s, p)
    THEN CHOOSE i \in Occurrences(s, p) : \A j \in Occurrences(s, p) : i <= j
    ELSE 0

\* s.count(c) for a one-character c
str_count(s, c) == Cardinality({i \in 1..Len(s) : s[i] = c})

\* the text after the first occurrence of sep, up to the next one
until_next(rest, sep) ==
    IF str_find(rest, sep) = 0 THEN rest ELSE SubSeq(rest, 1, str_find(rest, sep) - 1)

\* s.split(sep)[1], defined when sep occurs in s: the text between the first
\* occurrence of sep and the next one after it
split_second(s, sep) == until_next(SubSeq(s, str_find(s, sep) + Len(sep), Len(s)), sep)

\* the end of the first token of t: the first whitespace position, or one
\* past the end
token_end(t, ws) == IF ws = {} THEN Len(t) + 1 ELSE CHOOSE i \in ws : \A j \in ws : i <= j

RECURSIVE str_split(_)
\* the tokens of a stripped, non-empty text whose first token ends before e
split_at(t, e) == <<SubSeq(t, 1, e - 1)>> \o str_split(SubSeq(t, e, Len(t)))

\* the tokens of a stripped text
split_stripped(t) ==
    IF t = <<>> THEN <<>>
    ELSE split_at(t, token_end(t, {i \in 1..Len(t) : t[i] \in Whitespace}))

\* s.split(): the whitespace-separated tokens of s
str_split(s) == split_stripped(str_strip(s))

Digits == <<"0", "1", "2", "3", "4", "5", "6", "7", "8", "9">>

DigitValue(c) == (CHOOSE i \in 1..10 : Digits[i] = c) - 1

IsDigit(c) == \E i \in 1..10 : Digits[i] = c

\* str(n) for an integer n
RECURSIVE str_of_nat(_)
str_of_nat(n) == IF n < 10 THEN <<Digits[n + 1]>> ELSE Append(str_of_nat(n \div 10), Digits[(n % 10) + 1])

str_of_int(n) == IF n < 0 THEN <<"-">> \o str_of_nat(-n) ELSE str_of_nat(n)

\* int(t) succeeds: an optional sign followed by at least one digit
all_digits(body) == body # <<>> /\ \A i \in 1..Len(body) : IsDigit(body[i])

int_ok(t) == all_digits(IF t # <<>> /\ t[1] \in {"+", "-"} THEN Tail(t) ELSE t)

RECURSIVE nat_of_digits(_)
nat_of_digits(t) ==
    IF t = <<>> THEN 0 ELSE 10 * nat_of_digits(SubSeq(t, 1, Len(t) - 1)) + DigitValue(t[Len(t)])

\* int(t), defined when int_ok(t)
int_of(t) ==
    IF t[1] = "-" THEN 0 - nat_of_digits(Tail(t))
    ELSE IF t[1] = "+" THEN nat_of_digits(Tail(t))
    ELSE nat_of_digits(t)

\* lst[:n]
slice_to(lst, n) ==
    IF n >= 0 THEN SubSeq(lst, 1, IF n < Len(lst) THEN n ELSE Len(lst))
    ELSE SubSeq(lst, 1, Len(lst) + n)

---------------------------------------------------------------------------
(* Python values.                                                          *)

\* None in a column that otherwise holds a datetime
None == <<"None">>

\* a datetime, as minutes relative to the construction of the backend
datetime(m) == <<"datetime", m>>

\* datetime.now(); nothing modelled here depends on the clock advancing
now == datetime(0)

\* the columns that hold datetime values
DatetimeFields == {"Posted", "User_Read", "First_Posted", "Last_Recalled", "Purge_After",
                   "Executed_Time", "column3"}

\* row.get(key, default)
get(row, key, default) == IF key \in DOMAIN row THEN row[key] ELSE default

\* the result of a call: either a returned value or a raised exception
\* (value is then str(e)); d is the backend after the call
Return(d, v) == [d |-> d, raised |-> FALSE, value |-> v]
Raise(d, msg) == [d |-> d, raised |-> TRUE, value |-> msg]

---------------------------------------------------------------------------
(* MockDataLink: seed tables.  Free text that no code path inspects is     *)
(* kept as an opaque string.                                               *)

LoanAnalyst == <<"L", "o", "a", "n", "A", "n", "a", "l", "y", "s", "t">>
MemberServices == <<"M", "e", "m", "b", "e", "r", "S", "e", "r", "v", "i", "c", "e", "s">>
ComplianceBot == <<"C", "o", "m", "p", "l", "i", "a", "n", "c", "e", "B", "o", "t">>
FinancialReporter == <<"F", "i", "n", "a", "n", "c", "i", "a", "l", "R", "e", "p", "o", "r", "t", "e", "r">>

\* MockDataLink._init_mock_data: self.mock_tables
_init_mock_data ==
    [AI_Agents |-> <<
        [Agent |-> LoanAnalyst, Description |-> "Analyzes loan portfolios",
         Model_API |-> "ollama", Model |-> "qwen2.5-coder", Model_API_KEY |-> "None"],
        [Agent |-> MemberServices, Description |-> "Provides insights on member accounts",
         Model_API |-> "ollama", Model |-> "qwen2.5-coder", Model_API_KEY |-> "None"],
        [Agent |-> ComplianceBot, Description |-> "Monitors regulatory compliance",
         Model_API |-> "anthropic", Model |-> "claude-3-sonnet", Model_API_KEY |-> "sk-ant-mock-key-456"],
        [Agent |-> FinancialReporter, Description |-> "Generates financial reports",
         Model_API |-> "openai", Model |-> "gpt-4", Model_API_KEY |-> "sk-mock-key-123"] >>,
     AI_Messages |-> <<
        [Message_ID |-> 1, Posted |-> datetime(-180), User_From |-> <<"c", "r", "e", "d", "i", "t", "m", "a", "n", "a", "g", "e", "r">>,
         User_To |-> LoanAnalyst, Message |-> "Can you analyze our auto loan portfolio",
         User_Read |-> datetime(-165)],
        [Message_ID |-> 2, Posted |-> datetime(-165), User_From |-> LoanAnalyst,
         User_To |-> <<"c", "r", "e", "d", "i", "t", "m", "a", "n", "a", "g", "e", "r">>, Message |-> "Analyzing Q4 auto loans",
         User_Read |-> datetime(-150)],
        [Message_ID |-> 3, Posted |-> datetime(-90), User_From |-> <<"b", "r", "a", "n", "c", "h", "m", "a", "n", "a", "g", "e", "r">>,
         User_To |-> MemberServices, Message |-> "Show me member account growth trends",
         User_Read |-> None],
        [Message_ID |-> 4, Posted |-> datetime(-75), User_From |-> MemberServices,
         User_To |-> <<"b", "r", "a", "n", "c", "h", "m", "a", "n", "a", "g", "e", "r">>, Message |-> "Branch A: +127 members",
         User_Read |-> None],
        [Message_ID |-> 5, Posted |-> datetime(-45), User_From |-> <<"a", "u", "d", "i", "t", "t", "e", "a", "m">>,
         User_To |-> ComplianceBot, Message |-> "Check BSA compliance",
         User_Read |-> None],
        [Message_ID |-> 6, Posted |-> datetime(-20), User_From |-> <<"p", "r", "e", "s", "i", "d", "e", "n", "t">>,
         User_To |-> FinancialReporter, Message |-> "Generate the monthly board report",
         User_Read |-> None] >>,
     AI_Memories |-> <<
        [Memory_ID |-> 1, Agent |-> LoanAnalyst, First_Posted |-> datetime(-10080),
         Times_Recalled |-> 5, Last_Recalled |-> datetime(-120),
         Memory_Label |-> "Auto Loan Risk Preferences",
         Memory |-> "Credit manager prefers auto loan analysis",
         Related_To |-> <<"a", "u", "t", "o", " ", "l", "o", "a", "n", "s", " ", "r", "i", "s", "k", " ", "d", "e", "l", "i", "n", "q", "u", "e", "n", "c", "y", " ", "a", "p", "r", " ", "a", "n", "a", "l", "y", "s", "i", "s">>, Purge_After |-> None],
        [Memory_ID |-> 2, Agent |-> MemberServices, First_Posted |-> datetime(-5760),
         Times_Recalled |-> 3, Last_Recalled |-> datetime(-90),
         Memory_Label |-> "Branch Performance Metrics",
         Memory |-> "Branch managers frequently request member growth",
         Related_To |-> <<"b", "r", "a", "n", "c", "h", "e", "s", " ", "m", "e", "m", "b", "e", "r", "s", " ", "g", "r", "o", "w", "t", "h", " ", "a", "s", "s", "e", "t", "s", " ", "a", "c", "c", "o", "u", "n", "t", "s">>, Purge_After |-> None],
        [Memory_ID |-> 3, Agent |-> ComplianceBot, First_Posted |-> datetime(-14400),
         Times_Recalled |-> 8, Last_Recalled |-> datetime(-1440),
         Memory_Label |-> "BSA Monitoring Patterns",
         Memory |-> "Audit team regularly monitors large cash transactions",
         Related_To |-> <<"b", "s", "a", " ", "c", "o", "m", "p", "l", "i", "a", "n", "c", "e", " ", "c", "a", "s", "h", " ", "t", "r", "a", "n", "s", "a", "c", "t", "i", "o", "n", "s", " ", "s", "u", "s", "p", "i", "c", "i", "o", "u", "s", " ", "a", "c", "t", "i", "v", "i", "t", "y">>, Purge_After |-> None],
        [Memory_ID |-> 4, Agent |-> FinancialReporter, First_Posted |-> datetime(-21600),
         Times_Recalled |-> 12, Last_Recalled |-> datetime(-2880),
         Memory_Label |-> "Board Report Requirements",
         Memory |-> "Monthly board reports require: asset growth",
         Related_To |-> <<"b", "o", "a", "r", "d", " ", "r", "e", "p", "o", "r", "t", "s", " ", "m", "o", "n", "t", "h", "l", "y", " ", "a", "s", "s", "e", "t", "s", " ", "m", "e", "m", "b", "e", "r", "s", " ", "l", "o", "a", "n", "s", " ", "p", "r", "o", "f", "i", "t", "a", "b", "i", "l", "i", "t", "y", " ", "c", "o", "m", "p", "l", "i", "a", "n", "c", "e">>,
         Purge_After |-> None],
        [Memory_ID |-> 5, Agent |-> LoanAnalyst, First_Posted |-> datetime(-4320),
         Times_Recalled |-> 2, Last_Recalled |-> datetime(-480),
         Memory_Label |-> "Mortgage Underwriting Criteria",
         Memory |-> "Current mortgage underwriting focuses on debt-to-income ratios",
         Related_To |-> <<"m", "o", "r", "t", "g", "a", "g", "e", " ", "u", "n", "d", "e", "r", "w", "r", "i", "t", "i", "n", "g", " ", "d", "t", "i", " ", "c", "r", "e", "d", "i", "t", " ", "s", "c", "o", "r", "e", " ", "l", "t", "v">>, Purge_After |-> None] >>,
     AI_Query_History |-> <<
        [Query_ID |-> 1, Agent |-> LoanAnalyst, Database_Name |-> "LoanDB",
         SQL_Query |-> "SELECT COUNT(*) as Total_Loans ...", Executed_Time |-> datetime(-165),
         Row_Count |-> 1, Execution_Time_MS |-> 156],
        [Query_ID |-> 2, Agent |-> MemberServices, Database_Name |-> "MemberDB",
         SQL_Query |-> "SELECT Branch_ID, COUNT(*) as New_Members ...", Executed_Time |-> datetime(-75),
         Row_Count |-> 3, Execution_Time_MS |-> 234],
        [Query_ID |-> 3, Agent |-> ComplianceBot, Database_Name |-> "TransactionDB",
         SQL_Query |-> "SELECT COUNT(*) as Large_Cash_Transactions ...", Executed_Time |-> datetime(-45),
         Row_Count |-> 1, Execution_Time_MS |-> 298],
        [Query_ID |-> 4, Agent |-> FinancialReporter, Database_Name |-> "FinancialDB",
         SQL_Query |-> "SELECT SUM(Assets) as Total_Assets ...", Executed_Time |-> datetime(-20),
         Row_Count |-> 1, Execution_Time_MS |-> 445],
        [Query_ID |-> 5, Agent |-> LoanAnalyst, Database_Name |-> "LoanDB",
         SQL_Query |-> "SELECT Loan_Type, COUNT(*) as Count ...", Executed_Time |-> datetime(-1620),
         Row_Count |-> 4, Execution_Time_MS |-> 678],
        [Query_ID |-> 6, Agent |-> MemberServices, Database_Name |-> "AccountDB",
         SQL_Query |-> "SELECT Account_Type, AVG(Balance) as Avg_Balance ...", Executed_Time |-> datetime(-2880),
         Row_Count |-> 5, Execution_Time_MS |-> 123] >>]

---------------------------------------------------------------------------
(* MockDataLink.                                                           *)

\* a log that drops the new entry when the buffer is full
log_keep_first(d, message) ==
    IF Len(d.log_entries) >= LogCap THEN d
    ELSE [d EXCEPT !.log_entries = Append(d.log_entries, message)]

\* <backend>.log: append, then keep only the last LogCap entries.  An entry
\* is recorded by its kind: "query", "statement", "info" or "error".
log(d, message) ==
    LET appended == Append(d.log_entries, message)
    IN  [d EXCEPT !.log_entries =
            IF Len(appended) > LogCap
            THEN SubSeq(appended, Len(appended) - LogCap + 1, Len(appended))
            ELSE appended]

RECURSIVE log_n(_, _, _)
log_n(d, message, n) == IF n <= 0 THEN d ELSE log_n(log(d, message), message, n - 1)

\* records that a public backend method was invoked
called(d, method, arg) == [d EXCEPT !.calls = Append(@, [method |-> method, arg |-> arg])]

\* an exception leaves a backend method: recorded after the call it ends
reraise(d, msg) == Raise(called(d, "raise", <<>>), msg)

RECURSIVE findall_users(_, _)
\* the length of the prefix user_from = ' or user_to = ' that begins at
\* position i of s; 0 when neither does
users_prefix(s, i) ==
    IF str_startswith(SubSeq(s, i, Len(s)), <<"u", "s", "e", "r", "_", "f", "r", "o", "m", " ", "=", " ", "'">>) THEN 13
    ELSE IF str_startswith(SubSeq(s, i, Len(s)), <<"u", "s", "e", "r", "_", "t", "o", " ", "=", " ", "'">>) THEN 11
    ELSE 0

\* the match whose prefix of length n begins at position i and whose closing
\* quote is the q-th character after the prefix, then the later matches
users_from(s, i, n, q) ==
    <<SubSeq(s, i + n, i + n + q - 2)>> \o findall_users(s, i + n + q)

\* the match at the first of the positions where the pattern matches
users_at(s, starts) ==
    IF starts = {} THEN <<>>
    ELSE users_from(s, CHOOSE i \in starts : \A j \in starts : i <= j,
                    users_prefix(s, CHOOSE i \in starts : \A j \in starts : i <= j),
                    str_find(SubSeq(s, (CHOOSE i \in starts : \A j \in starts : i <= j)
                                        + users_prefix(s, CHOOSE i \in starts : \A j \in starts : i <= j),
                                    Len(s)), <<"'">>))

\* re.findall(r"user_(?:from|to) = '([^']+)'", s), scanning from position i:
\* the pattern matches where a prefix is followed by at least one character
\* and then a quote
findall_users(s, i) ==
    users_at(s, {j \in i..Len(s) :
                   /\ users_prefix(s, j) > 0
                   /\ str_find(SubSeq(s, j + users_prefix(s, j), Len(s)), <<"'">>) > 1})

RECURSIVE findall_quoted(_)
\* the quoted text that ends at the b-th character of rest, then the others
quoted_from(rest, b) ==
    IF b = 0 THEN <<>>
    ELSE <<SubSeq(rest, 1, b - 1)>> \o findall_quoted(SubSeq(rest, b + 1, Len(rest)))

\* the quoted texts of s from its first quote, at position a
quoted_at(s, a) ==
    IF a = 0 THEN <<>>
    ELSE quoted_from(SubSeq(s, a + 1, Len(s)), str_find(SubSeq(s, a + 1, Len(s)), <<"'">>))

\* re.findall(r"'([^']*)'", s)
findall_quoted(s) == quoted_at(s, str_find(s, <<"'">>))

RECURSIVE search_values(_, _)
\* the pattern tried at position i: after is the text behind "values", o the
\* position of its first non-whitespace character
values_at(s, i, after, o) ==
    IF /\ str_startswith(SubSeq(s, i, Len(s)), <<"v", "a", "l", "u", "e", "s">>)
       /\ o > 0
       /\ after[o] = "("
       /\ str_find(SubSeq(after, o + 1, Len(after)), <<")">>) > 1
    THEN SubSeq(s, i, i + 5 + o + str_find(SubSeq(after, o + 1, Len(after)), <<")">>))
    ELSE search_values(s, i + 1)

\* the position of the first character of after that is not whitespace
first_nonws(after, nonws) == IF nonws = {} THEN 0 ELSE CHOOSE k \in nonws : \A j \in nonws : k <= j

\* re.search(r"values\s*\([^)]+\)", s): the matched text, or <<>> for no match
search_values(s, i) ==
    IF i > Len(s) THEN <<>>
    ELSE values_at(s, i, SubSeq(s, i + 6, Len(s)),
                   first_nonws(SubSeq(s, i + 6, Len(s)),
                               {k \in 1..(Len(s) - i - 5) : s[i + 5 + k] \notin Whitespace}))

\* the sort key x.get('Posted', datetime.min); datetime.min is before every
\* datetime of the model
PostedKey(row) == get(row, "Posted", datetime(-1000000))[2]

\* x placed after the last element of a sorted list that does not sort
\* strictly after it
insert_sorted(init, x, stay) ==
    IF stay = {} THEN <<x>> \o init
    ELSE SubSeq(init, 1, CHOOSE i \in stay : \A j \in stay : i >= j) \o <<x>>
         \o SubSeq(init, (CHOOSE i \in stay : \A j \in stay : i >= j) + 1, Len(init))

\* x inserted into a sorted list, after the elements that do not sort
\* strictly after it
insert_into(init, x, reverse) ==
    insert_sorted(init, x,
                  {i \in 1..Len(init) :
                      IF reverse THEN PostedKey(init[i]) >= PostedKey(x)
                      ELSE PostedKey(init[i]) <= PostedKey(x)})

\* sorted(data, key, reverse) by insertion
RECURSIVE sort_by_posted(_, _)
sort_by_posted(data, reverse) ==
    IF data = <<>> THEN <<>>
    ELSE insert_into(sort_by_posted(SubSeq(data, 1, Len(data) - 1), reverse),
                     data[Len(data)], reverse)

\* [row for row in data if keep(row)]
RECURSIVE select_rows(_, _)
select_rows(data, keepIdx) ==
    IF data = <<>> THEN <<>>
    ELSE IF Len(data) \in keepIdx
    THEN Append(select_rows(SubSeq(data, 1, Len(data) - 1), keepIdx), data[Len(data)])
    ELSE select_rows(SubSeq(data, 1, Len(data) - 1), keepIdx)

\* the conversation branch of the WHERE clause: the messages between the
\* first two users found, either way round, compared case-insensitively
conversation_rows(data, users) ==
    IF Len(users) >= 2
    THEN {i \in 1..Len(data) :
            \/ /\ str_lower(get(data[i], "User_From", <<>>)) = str_lower(users[1])
               /\ str_lower(get(data[i], "User_To", <<>>)) = str_lower(users[2])
            \/ /\ str_lower(get(data[i], "User_From", <<>>)) = str_lower(users[2])
               /\ str_lower(get(data[i], "User_To", <<>>)) = str_lower(users[1])}
    ELSE 1..Len(data)

\* the number of log entries the conversation branch writes
conversation_logs(data, users) ==
    IF Len(users) >= 2 THEN 4 + (IF Len(data) < 5 THEN Len(data) ELSE 5) ELSE 2

\* the agent branch: agent_part.split()[0] raises IndexError when nothing
\* follows "agent ="
agent_rows(data, agent_tokens) ==
    IF agent_tokens = <<>> THEN [raised |-> TRUE, keep |-> {}, logs |-> 0]
    ELSE [raised |-> FALSE,
          keep |-> {i \in 1..Len(data) :
                      str_lower(get(data[i], "Agent", <<>>))
                         = str_lower(str_strip_chars(agent_tokens[1], {"'", "\""}))},
          logs |-> 0]

\* the user_to branch, once the closing quote has been looked for
user_to_value_rows(data, user_to_part, end_quote) ==
    IF end_quote > 0
    THEN {i \in 1..Len(data) : get(data[i], "User_To", None) = SubSeq(user_to_part, 2, end_quote)}
    ELSE 1..Len(data)

\* the user_to branch
user_to_rows(data, user_to_part) ==
    IF user_to_part # <<>> /\ user_to_part[1] \in {"'", "\""}
    THEN user_to_value_rows(data, user_to_part,
                            str_find(Tail(user_to_part), <<user_to_part[1]>>))
    ELSE 1..Len(data)

\* the if/elif chain under `if "where" in sql_lower`: [raised, keep, logs]
where_rows(data, sql_lower) ==
    IF ~str_contains(sql_lower, <<"w", "h", "e", "r", "e">>)
    THEN [raised |-> FALSE, keep |-> 1..Len(data), logs |-> 0]
    ELSE IF /\ str_contains(sql_lower, <<"u", "s", "e", "r", "_", "f", "r", "o", "m", " ", "=">>)
            /\ str_contains(sql_lower, <<"u", "s", "e", "r", "_", "t", "o", " ", "=">>)
            /\ str_contains(sql_lower, <<" ", "o", "r", " ">>)
    THEN [raised |-> FALSE,
          keep |-> conversation_rows(data, findall_users(sql_lower, 1)),
          logs |-> conversation_logs(data, findall_users(sql_lower, 1))]
    ELSE IF \/ str_contains(sql_lower, <<"s", "t", "a", "t", "e", " ", "=", " ", "'", "c", "a", "'">>)
            \/ str_contains(sql_lower, <<"s", "t", "a", "t", "e", " ", "=", " ", "\"", "c", "a", "\"">>)
    THEN [raised |-> FALSE,
          keep |-> {i \in 1..Len(data) : get(data[i], "State", "None") = "CA"},
          logs |-> 0]
    ELSE IF str_contains(sql_lower, <<"a", "g", "e", "n", "t", " ", "=">>)
    THEN agent_rows(data, str_split(str_strip(split_second(sql_lower, <<"a", "g", "e", "n", "t", " ", "=">>))))
    ELSE IF str_contains(sql_lower, <<"u", "s", "e", "r", "_", "t", "o", " ", "=">>)
    THEN [raised |-> FALSE,
          keep |-> user_to_rows(data, str_strip(SubSeq(sql_lower,
                                    str_find(sql_lower, <<"u", "s", "e", "r", "_", "t", "o", " ", "=">>) + 9, Len(sql_lower)))),
          logs |-> 0]
    ELSE [raised |-> FALSE, keep |-> 1..Len(data), logs |-> 0]

\* the `user_read is null` filter, applied under WHERE after the chain
unread_rows(data, sql_lower, keep) ==
    IF str_contains(sql_lower, <<"w", "h", "e", "r", "e">>) /\ str_contains(sql_lower, <<"u", "s", "e", "r", "_", "r", "e", "a", "d", " ", "i", "s", " ", "n", "u", "l", "l">>)
    THEN {i \in keep : get(data[i], "User_Read", None) = None}
    ELSE keep

\* ORDER BY, given the text after "order by"
order_by(rows, order_part) ==
    IF str_contains(order_part, <<"p", "o", "s", "t", "e", "d", " ", "d", "e", "s", "c">>) THEN sort_by_posted(rows, TRUE)
    ELSE IF str_contains(order_part, <<"p", "o", "s", "t", "e", "d">>) THEN sort_by_posted(rows, FALSE)
    ELSE rows

\* the ORDER BY step
ordered_rows(rows, sql_lower) ==
    IF str_contains(sql_lower, <<"o", "r", "d", "e", "r", " ", "b", "y">>)
    THEN order_by(rows, str_strip(split_second(sql_lower, <<"o", "r", "d", "e", "r", " ", "b", "y">>)))
    ELSE rows

\* LIMIT, given the words after "limit": IndexError and ValueError are
\* swallowed and leave the rows as they are
limit_to(rows, limit_tokens) ==
    IF limit_tokens # <<>> /\ int_ok(limit_tokens[1])
    THEN slice_to(rows, int_of(limit_tokens[1]))
    ELSE rows

\* the LIMIT step
limited_rows(rows, sql_lower) ==
    IF str_contains(sql_lower, <<"l", "i", "m", "i", "t">>)
    THEN limit_to(rows, str_split(str_strip(split_second(sql_lower, <<"l", "i", "m", "i", "t">>))))
    ELSE rows

\* the steps after the WHERE chain
filtered_rows(data, sql_lower, w) ==
    IF w.raised THEN [raised |-> TRUE, rows |-> <<>>, logs |-> w.logs]
    ELSE [raised |-> FALSE,
          rows |-> limited_rows(
                      ordered_rows(select_rows(data, unread_rows(data, sql_lower, w.keep)),
                                   sql_lower),
                      sql_lower),
          logs |-> w.logs]

\* MockDataLink._filter_mock_data: [raised, rows, logs]; logs is the number
\* of entries it writes to the log
_filter_mock_data(data, sql) ==
    filtered_rows(data, str_lower(sql), where_rows(data, str_lower(sql)))

\* MockDataLink._convert_datetime_for_json: datetime values become ISO strings
_convert_datetime_for_json(data) ==
    [i \in 1..Len(data) |->
        [k \in DOMAIN data[i] |->
            IF k \in DatetimeFields /\ data[i][k][1] = "datetime"
            THEN <<"iso", data[i][k][2]>>
            ELSE data[i][k]]]

\* the table names sql_get looks for, in the order it looks for them
table_words ==
    << <<"a", "i", "_", "a", "g", "e", "n", "t", "s">>, <<"a", "i", "_", "m", "e", "s", "s", "a", "g", "e", "s">>, <<"a", "i", "_", "m", "e", "m", "o", "r", "i", "e", "s">>, <<"a", "i", "_", "q", "u", "e", "r", "y", "_", "h", "i", "s", "t", "o", "r", "y">>, <<"m", "e", "m", "b", "e", "r", "s">>,
       <<"a", "c", "c", "o", "u", "n", "t", "s">>, <<"l", "o", "a", "n", "s">>, <<"t", "r", "a", "n", "s", "a", "c", "t", "i", "o", "n", "s">>, <<"b", "r", "a", "n", "c", "h", "e", "s">> >>

\* the first table name found in the statement, as an index; 0 for none
table_index(sql_lower) ==
    IF \E i \in 1..Len(table_words) : str_contains(sql_lower, table_words[i])
    THEN CHOOSE i \in 1..Len(table_words) :
            /\ str_contains(sql_lower, table_words[i])
            /\ \A j \in 1..(i - 1) : ~str_contains(sql_lower, table_words[j])
    ELSE 0

\* the rows of the table found; the credit-union sample tables are kept by
\* their key column (and State where the table has one) and are never written
table_rows(d, i) ==
    CASE i = 1 -> d.mock_tables.AI_Agents
      [] i = 2 -> d.mock_tables.AI_Messages
      [] i = 3 -> d.mock_tables.AI_Memories
      [] i = 4 -> d.mock_tables.AI_Query_History
      [] i = 5 -> [n \in 1..9 |-> [Member_ID |-> 100000 + n, State |-> "OR"]]
      [] i = 6 -> [n \in 1..9 |-> [Account_ID |-> 20000 + n]]
      [] i = 7 -> [n \in 1..7 |-> [Loan_ID |-> 30000 + n]]
      [] i = 8 -> [n \in 1..6 |-> [Transaction_ID |-> 40000 + n]]
      [] i = 9 -> [n \in 1..3 |-> [Branch_ID |-> n, State |-> "OR"]]

\* the end of sql_get for a known table: the filter's log entries, then the
\* rows or the exception
table_result(d1, f) ==
    IF f.raised
    THEN reraise(log([log_n(d1, "info", f.logs) EXCEPT !.wasError = TRUE], "error"),
                 "Mock SQL GET Error: list index out of range")
    ELSE Return(log_n(d1, "info", f.logs), _convert_datetime_for_json(f.rows))

\* the body of sql_get after the statement has been logged
get_result(d1, sql, sql_lower, i, rnd) ==
    IF i # 0 THEN table_result(d1, _filter_mock_data(table_rows(d1, i), sql))
    ELSE IF str_contains(sql_lower, <<"s", "e", "l", "e", "c", "t", " ", "1">>) THEN Return(d1, <<[result |-> 1]>>)
    ELSE IF str_contains(sql_lower, <<"c", "o", "u", "n", "t", "(", "*", ")">>) THEN Return(d1, <<[cnt |-> rnd]>>)
    ELSE Return(d1, _convert_datetime_for_json(
             <<[column1 |-> "Sample Value 1", column2 |-> 123, column3 |-> now],
               [column1 |-> "Sample Value 2", column2 |-> 456, column3 |-> datetime(-1440)]>>))

\* MockDataLink.sql_get; rnd is the value random.randint(0, 100) produces
mock_sql_get(d0, sql, rnd) ==
    get_result(log([called(d0, "sql_get", sql) EXCEPT !.wasError = FALSE], "query"),
               sql, str_strip(str_lower(sql)), table_index(str_strip(str_lower(sql))), rnd)

\* the message _simulate_insert adds when the statement names ai_messages
inserted_message(d, values_str, value_matches) ==
    IF values_str = <<>> THEN d
    ELSE IF Len(value_matches) >= 3
    THEN log([d EXCEPT !.mock_tables.AI_Messages = Append(@,
            [Message_ID |-> Len(@) + 1, Posted |-> now,
             User_From |-> value_matches[1], User_To |-> value_matches[2],
             Message |-> value_matches[3], User_Read |-> None])], "info")
    ELSE [d EXCEPT !.mock_tables.AI_Messages = Append(@,
            [Message_ID |-> Len(@) + 1, Posted |-> now,
             User_From |-> <<"m", "o", "c", "k", "_", "u", "s", "e", "r">>, User_To |-> <<"m", "o", "c", "k", "_", "a", "g", "e", "n", "t">>,
             Message |-> "Mock inserted message", User_Read |-> None])]

\* _simulate_insert, given the lower-cased statement and its VALUES clause
simulated_insert(d, sql_lower, values_str) ==
    IF str_contains(sql_lower, <<"a", "i", "_", "m", "e", "s", "s", "a", "g", "e", "s">>)
    THEN inserted_message(d, values_str, findall_quoted(values_str))
    ELSE IF str_contains(sql_lower, <<"a", "i", "_", "m", "e", "m", "o", "r", "i", "e", "s">>)
    THEN [d EXCEPT !.mock_tables.AI_Memories = Append(@,
            [Memory_ID |-> Len(@) + 1, Agent |-> <<"m", "o", "c", "k", "_", "a", "g", "e", "n", "t">>,
             First_Posted |-> now, Times_Recalled |-> 0, Last_Recalled |-> None,
             Memory_Label |-> "Mock Memory", Memory |-> "Mock memory content",
             Related_To |-> <<"m", "o", "c", "k", " ", "t", "e", "s", "t">>, Purge_After |-> None])]
    ELSE d

\* MockDataLink._simulate_insert
_simulate_insert(d, sql) ==
    log(simulated_insert(d, str_lower(sql), search_values(str_lower(sql), 1)), "info")

\* an update that clears the recall counters instead of simulating
_simulate_update_clearing(d, sql) ==
    log([d EXCEPT !.mock_tables.AI_Memories =
                      [i \in 1..Len(@) |-> [@[i] EXCEPT !.Times_Recalled = 0]]],
        "info")

\* MockDataLink._simulate_update
_simulate_update(d, sql) == log(d, "info")

\* MockDataLink._simulate_delete
_simulate_delete(d, sql) == log(d, "info")

\* sql_run once the statement has been logged
run_result(d1, sql, sql_lower) ==
    Return(IF str_startswith(sql_lower, <<"i", "n", "s", "e", "r", "t">>) THEN _simulate_insert(d1, sql)
           ELSE IF str_startswith(sql_lower, <<"u", "p", "d", "a", "t", "e">>) THEN _simulate_update(d1, sql)
           ELSE IF str_startswith(sql_lower, <<"d", "e", "l", "e", "t", "e">>) THEN _simulate_delete(d1, sql)
           ELSE log(d1, "info"),
           None)

\* MockDataLink.sql_run
mock_sql_run(d0, sql) ==
    run_result(log([called(d0, "sql_run", sql) EXCEPT !.wasError = FALSE], "statement"),
               sql, str_strip(str_lower(sql)))

\* the loop of sql_insert over the rows given for ai_messages
RECURSIVE mock_insert_rows(_, _)
mock_insert_rows(d, data) ==
    IF data = <<>> THEN d
    ELSE mock_insert_rows(
             log([d EXCEPT !.mock_tables.AI_Messages = Append(@,
                    [Message_ID |-> Len(@) + 1,
                     Posted |-> get(Head(data), "posted", now),
                     User_From |-> get(Head(data), "user_from", <<"u", "n", "k", "n", "o", "w", "n">>),
                     User_To |-> get(Head(data), "user_to", <<"u", "n", "k", "n", "o", "w", "n">>),
                     Message |-> get(Head(data), "message", ""),
                     User_Read |-> get(Head(data), "user_read", None)])],
                 "info"),
             Tail(data))

\* MockDataLink.sql_insert with run=True: after the bulk-insert log entry,
\* only rows given for ai_messages are stored
mock_sql_insert(d0, table_name, data) ==
    IF data = <<>> THEN Return(called(d0, "sql_insert", table_name), None)
    ELSE IF str_lower(table_name) = <<"a", "i", "_", "m", "e", "s", "s", "a", "g", "e", "s">>
    THEN Return(mock_insert_rows(log(called(d0, "sql_insert", table_name), "info"), data), None)
    ELSE Return(log(called(d0, "sql_insert", table_name), "info"), None)

---------------------------------------------------------------------------
(* PostgreSQLDataLink and DataLink (SQL Server).  The database server is   *)
(* outside the program: what a call meets there is the oracle o, with      *)
(*   o.fail_at  the number of the backend call (within one tool call) that *)
(*              fails, 0 for none;                                         *)
(*   o.fault    "connect" (no connection after the retries) or "statement" *)
(*              (the server rejects the statement);                        *)
(*   o.rows     the rows the server returns to a query;                    *)
(*   o.rnd      the value random.randint(0, 100) produces (mock only);     *)
(*   o.ms       the measured execution time in milliseconds.               *)

RECURSIVE str_replace(_, _, _)
\* s with the occurrence of old at position i, and the later ones, replaced
replace_at(s, old, new, i) ==
    IF i = 0 THEN s
    ELSE SubSeq(s, 1, i - 1) \o new \o str_replace(SubSeq(s, i + Len(old), Len(s)), old, new)

\* s.replace(old, new)
str_replace(s, old, new) == replace_at(s, old, new, str_find(s, old))

\* <backend>.sql_escape for a str value; the three backends share the body
sql_escape(data, quote) ==
    IF data = None THEN <<"N", "U", "L", "L">>
    ELSE IF quote THEN <<"'">> \o str_replace(data, <<"'">>, <<"'", "'">>) \o <<"'">>
    ELSE str_replace(data, <<"'">>, <<"'", "'">>)

\* does the backend call being made now fail?
fails(d, o) == o.fail_at = Len(d.calls)

\* _get_connection when no connection can be made: three attempts, each
\* logged, then the exception
connect_failure(d) == log_n([d EXCEPT !.wasError = TRUE], "error", 3)

\* a failed statement of sql_get or sql_run: the except branch logs the
\* error and raises it again under the method's prefix
net_failure(d1, o, entry, prefix) ==
    IF o.fault = "connect"
    THEN reraise(log([connect_failure(d1) EXCEPT !.wasError = TRUE], "error"),
                 prefix \o "Failed to connect after 3 attempts")
    ELSE reraise(log([log(d1, entry) EXCEPT !.wasError = TRUE], "error"),
                 prefix \o "statement rejected")

\* sql_get or sql_run once wasError has been cleared
net_result(d1, o, entry, prefix, value) ==
    IF fails(d1, o) THEN net_failure(d1, o, entry, prefix)
    ELSE Return(log(d1, entry), value)

\* PostgreSQLDataLink.sql_get / DataLink.sql_get
net_sql_get(d0, sql, o) ==
    net_result([called(d0, "sql_get", sql) EXCEPT !.wasError = FALSE], o,
               "query", "SQL GET Error: ", o.rows)

\* PostgreSQLDataLink.sql_run / DataLink.sql_run
net_sql_run(d0, sql, o) ==
    net_result([called(d0, "sql_run", sql) EXCEPT !.wasError = FALSE], o,
               "statement", "SQL RUN Error: ", None)

\* sql_insert once entered, with run=True and one chunk of rows.
\* PostgreSQLDataLink executes the statement on the connection directly and
\* logs nothing; a connection that is already open is reused, so a success
\* leaves wasError as it was.  DataLink sends the statement through sql_run.
net_insert_result(d1, data, o) ==
    IF data = <<>> THEN Return(d1, None)
    ELSE IF d1.kind = "postgresql"
    THEN IF ~fails(d1, o) THEN Return(d1, None)
         ELSE IF o.fault = "connect"
         THEN reraise(connect_failure(d1), "Failed to connect after 3 attempts")
         ELSE reraise(d1, "statement rejected")
    ELSE net_result([d1 EXCEPT !.wasError = FALSE], o, "statement", "SQL RUN Error: ", None)

\* PostgreSQLDataLink.sql_insert / DataLink.sql_insert
net_sql_insert(d0, table_name, data, o) ==
    net_insert_result(called(d0, "sql_insert", table_name), data, o)

---------------------------------------------------------------------------
(* The backend behind the provider: self.db.<method>.                      *)

db_sql_get(d, sql, o) ==
    IF d.kind = "mock" THEN mock_sql_get(d, sql, o.rnd) ELSE net_sql_get(d, sql, o)

db_sql_run(d, sql, o) ==
    IF d.kind = "mock" THEN mock_sql_run(d, sql) ELSE net_sql_run(d, sql, o)

db_sql_insert(d, table_name, data, o) ==
    IF d.kind = "mock" THEN mock_sql_insert(d, table_name, data)
    ELSE net_sql_insert(d, table_name, data, o)

---------------------------------------------------------------------------
(* The tool providers.  A tool body is an operator of the backend d, the   *)
(* bound parameters p and the oracle o; it yields Return(d', value) or,    *)
(* when an exception leaves the body, Raise(d', str(e)).                   *)

\* list(self.tools.keys()), in insertion order: MCPToolProvider registers
\* get_table_dependencies, the two other providers do not
tools(k) ==
    IF k = "mock"
    THEN << "connect_to_database", "list_databases",
            "get_schema_info", "describe_table", "get_table_relationships",
            "get_table_dependencies",
            "execute_query", "validate_sql", "get_query_history", "check_permissions",
            "sample_table", "get_column_stats",
            "store_memory", "retrieve_memories", "search_memories", "update_memory",
            "delete_memory", "get_memory_stats" >>
    ELSE << "connect_to_database", "list_databases",
            "get_schema_info", "describe_table", "get_table_relationships",
            "execute_query", "validate_sql", "get_query_history", "check_permissions",
            "sample_table", "get_column_stats",
            "store_memory", "retrieve_memories", "search_memories", "update_memory",
            "delete_memory", "get_memory_stats" >>

\* tool_name in self.tools
Registered(k, name) == \E i \in 1..Len(tools(k)) : tools(k)[i] = name

\* the keyword parameters of each tool: those without a default, and the
\* defaults of the others
Signature(name) ==
    CASE name = "execute_query" ->
            [required |-> {"database_name", "sql_query"}, defaults |-> [row_limit |-> 1000]]
      [] name = "validate_sql" ->
            [required |-> {"database_name", "sql_query"}, defaults |-> <<>>]
      [] name = "check_permissions" ->
            [required |-> {"database_name", "object_name", "operation"}, defaults |-> <<>>]
      [] name = "sample_table" ->
            [required |-> {"database_name", "table_name"},
             defaults |-> [row_count |-> 10, columns |-> <<>>]]
      [] name = "store_memory" ->
            [required |-> {"agent_name", "memory_label", "memory_content", "related_to_tags"},
             defaults |-> [purge_after |-> None]]
      [] name = "retrieve_memories" ->
            [required |-> {"agent_name", "related_to_tags"}, defaults |-> [limit |-> 10]]
      [] name = "search_memories" ->
            [required |-> {"agent_name", "search_text"}, defaults |-> [limit |-> 10]]
      [] name = "update_memory" ->
            [required |-> {"memory_id", "memory_content"},
             defaults |-> [related_to_tags |-> None]]
      [] name = "delete_memory" -> [required |-> {"memory_id"}, defaults |-> <<>>]
      [] name = "get_memory_stats" -> [required |-> {"agent_name"}, defaults |-> <<>>]
      [] name = "connect_to_database" ->
            [required |-> {"server_instance", "database_name"},
             defaults |-> [connection_string |-> None]]
      [] name = "list_databases" -> [required |-> {"server_instance"}, defaults |-> <<>>]
      [] name = "get_schema_info" ->
            [required |-> {"database_name"}, defaults |-> [object_types |-> None]]
      [] name = "describe_table" ->
            [required |-> {"database_name", "table_name"},
             defaults |-> [include_sample_data |-> FALSE]]
      [] name \in {"get_table_relationships", "get_table_dependencies"} ->
            [required |-> {"database_name"}, defaults |-> [table_name |-> None]]
      [] name = "get_column_stats" ->
            [required |-> {"database_name", "table_name", "column_name"}, defaults |-> <<>>]

\* tool_func(**parameters) raises TypeError: a parameter without default is
\* missing, or a keyword is not a parameter of the tool
BindError(name, params) ==
    \/ ~(Signature(name).required \subseteq DOMAIN params)
    \/ ~(DOMAIN params \subseteq (Signature(name).required \cup DOMAIN Signature(name).defaults))

\* the parameters as the tool body sees them
Bind(name, params) == params @@ Signature(name).defaults

---------------------------------------------------------------------------
(* Query execution tools.                                                  *)

\* a gate that looks for select anywhere in the statement
not_select_anywhere(sql_query) == ~str_contains(str_lower(sql_query), <<"s", "e", "l", "e", "c", "t">>)

\* the security gate of execute_query: the statement is rejected
not_select(sql_query) == ~str_startswith(str_strip(str_lower(sql_query)), <<"s", "e", "l", "e", "c", "t">>)

\* a failure swallowed without a log entry
history_logged_silent(ins) == ins.d

\* the except branch of _log_query_history: the failure is logged and swallowed
history_logged(ins) == IF ins.raised THEN log(ins.d, "error") ELSE ins.d

\* <provider>._log_query_history (MCPToolProvider only)
_log_query_history(d, agent_name, database_name, sql_query, row_count, execution_time_ms, o) ==
    history_logged(
        db_sql_insert(d, <<"A", "I", "_", "Q", "u", "e", "r", "y", "_", "H", "i", "s", "t", "o", "r", "y">>,
                      <<[Agent |-> agent_name, Database_Name |-> database_name,
                         SQL_Query |-> sql_query, Executed_Time |-> now,
                         Row_Count |-> row_count, Execution_Time_MS |-> execution_time_ms]>>,
                      o))

\* the dict execute_query returns for the rows of a query
query_data(sql_query, rows, o) ==
    [query |-> sql_query, row_count |-> Len(rows), execution_time_ms |-> o.ms,
     results |-> rows]

\* the end of MCPToolProvider.execute_query: the history entry, then the dict;
\* an exception of sql_get is caught and returned as a dict
query_result_generic(p, sql_query, g, o) ==
    IF g.raised THEN Return(g.d, [error |-> g.value])
    ELSE Return(_log_query_history(g.d, <<"s", "y", "s", "t", "e", "m">>, p.database_name, sql_query,
                                   Len(g.value), o.ms, o),
                query_data(sql_query, g.value, o))

\* the end of execute_query of the PostgreSQL and SQL Server providers
query_result_net(sql_query, g, o) ==
    IF g.raised THEN Return(g.d, [error |-> g.value])
    ELSE Return(g.d, query_data(sql_query, g.value, o))

\* the query run for the statement as limited
run_query(d, p, sql_query, o) ==
    IF d.kind = "mock" THEN query_result_generic(p, sql_query, db_sql_get(d, sql_query, o), o)
    ELSE query_result_net(sql_query, db_sql_get(d, sql_query, o), o)

\* the statement with the row limit of MCPToolProvider.execute_query applied
limited_generic(p) ==
    IF ~str_contains(str_strip(str_lower(p.sql_query)), <<"l", "i", "m", "i", "t">>) /\ p.row_limit > 0
    THEN p.sql_query \o <<" ", "L", "I", "M", "I", "T", " ">> \o str_of_int(p.row_limit)
    ELSE p.sql_query

\* the same for PostgreSQLMCPToolProvider.execute_query
limited_pg(p) ==
    IF ~str_contains(str_strip(str_lower(p.sql_query)), <<"l", "i", "m", "i", "t">>) /\ p.row_limit > 0
    THEN str_rstrip_chars(p.sql_query, {";"}) \o <<" ", "L", "I", "M", "I", "T", " ">> \o str_of_int(p.row_limit)
    ELSE p.sql_query

\* f"SELECT TOP {row_limit} " + sql_query[7:], or sql_query[6:] when no blank
\* follows the select of the stripped statement
with_top(stripped, row_limit) ==
    IF str_startswith(str_lower(stripped), <<"s", "e", "l", "e", "c", "t", " ">>)
    THEN <<"S", "E", "L", "E", "C", "T", " ", "T", "O", "P", " ">> \o str_of_int(row_limit) \o <<" ">> \o SubSeq(stripped, 8, Len(stripped))
    ELSE <<"S", "E", "L", "E", "C", "T", " ", "T", "O", "P", " ">> \o str_of_int(row_limit) \o <<" ">> \o SubSeq(stripped, 7, Len(stripped))

\* the same for SQLServerMCPToolProvider.execute_query
limited_sqlserver(p) ==
    IF ~str_contains(str_strip(str_lower(p.sql_query)), <<"t", "o", "p", " ">>) /\ p.row_limit > 0
    THEN with_top(str_strip(p.sql_query), p.row_limit)
    ELSE p.sql_query

\* MCPToolProvider.execute_query
execute_query_generic(d, p, o) ==
    IF not_select(p.sql_query) THEN Return(d, [error |-> "Only SELECT queries are allowed"])
    ELSE run_query(d, p, limited_generic(p), o)

\* PostgreSQLMCPToolProvider.execute_query
execute_query_pg(d, p, o) ==
    IF not_select(p.sql_query) THEN Return(d, [error |-> "Only SELECT queries are allowed"])
    ELSE run_query(d, p, limited_pg(p), o)

\* SQLServerMCPToolProvider.execute_query
execute_query_sqlserver(d, p, o) ==
    IF not_select(p.sql_query) THEN Return(d, [error |-> "Only SELECT queries are allowed"])
    ELSE run_query(d, p, limited_sqlserver(p), o)

\* dangerous_keywords of validate_sql: the PostgreSQL and SQL Server
\* providers also look for create
dangerous_keywords(k) ==
    IF k = "mock" THEN << <<"d", "r", "o", "p">>, <<"d", "e", "l", "e", "t", "e">>, <<"u", "p", "d", "a", "t", "e">>, <<"i", "n", "s", "e", "r", "t">>, <<"t", "r", "u", "n", "c", "a", "t", "e">>, <<"a", "l", "t", "e", "r">> >>
    ELSE << <<"d", "r", "o", "p">>, <<"d", "e", "l", "e", "t", "e">>, <<"u", "p", "d", "a", "t", "e">>, <<"i", "n", "s", "e", "r", "t">>, <<"t", "r", "u", "n", "c", "a", "t", "e">>, <<"a", "l", "t", "e", "r">>, <<"c", "r", "e", "a", "t", "e">> >>

\* MCPToolProvider.validate_sql: `keyword in sql_lower`
keyword_found_generic(keyword, sql_lower) == str_contains(sql_lower, keyword)

\* PostgreSQLMCPToolProvider.validate_sql and SQLServerMCPToolProvider.validate_sql:
\* f" {keyword} " in f" {sql_lower} " or sql_lower.startswith(f"{keyword} ")
keyword_found_pg(keyword, sql_lower) ==
    \/ str_contains(<<" ">> \o sql_lower \o <<" ">>, <<" ">> \o keyword \o <<" ">>)
    \/ str_startswith(sql_lower, keyword \o <<" ">>)

\* the issues list of validate_sql; an issue is <<kind>> or <<"keyword", k>>
RECURSIVE keyword_issues(_, _, _)
keyword_issues(k, keywords, sql_lower) ==
    IF keywords = <<>> THEN <<>>
    ELSE (IF (IF k = "mock" THEN keyword_found_generic(Head(keywords), sql_lower)
              ELSE keyword_found_pg(Head(keywords), sql_lower))
          THEN << <<"keyword", Head(keywords)>> >>
          ELSE <<>>)
         \o keyword_issues(k, Tail(keywords), sql_lower)

\* the issues validate_sql finds in the lower-cased, stripped statement
sql_issues(k, p, sql_lower) ==
    keyword_issues(k, dangerous_keywords(k), sql_lower)
    \o (IF ~str_startswith(sql_lower, <<"s", "e", "l", "e", "c", "t">>) THEN << <<"must_start_with_select">> >> ELSE <<>>)
    \o (IF str_count(p.sql_query, "(") # str_count(p.sql_query, ")")
        THEN << <<"mismatched_parentheses">> >> ELSE <<>>)

\* the dict validate_sql returns for the issues found
validation(p, issues) == [valid |-> (Len(issues) = 0), issues |-> issues, query |-> p.sql_query]

\* <provider>.validate_sql
validate_sql(d, p, o) ==
    Return(d, validation(p, sql_issues(d.kind, p, str_strip(str_lower(p.sql_query)))))

\* <provider>.check_permissions: operation.upper() == "SELECT", which for the
\* letters of the model is operation.lower() == "select"
check_permissions(d, p, o) ==
    IF str_lower(p.operation) = <<"s", "e", "l", "e", "c", "t">>
    THEN Return(d, [permitted |-> TRUE, operation |-> p.operation, object |-> p.object_name])
    ELSE Return(d, [permitted |-> FALSE, operation |-> p.operation, object |-> p.object_name,
                    reason |-> "Only SELECT operations are permitted for AI agents"])

---------------------------------------------------------------------------
(* Data exploration tools.                                                 *)

\* sep.join(parts)
RECURSIVE str_join(_, _)
str_join(sep, parts) ==
    IF parts = <<>> THEN <<>>
    ELSE IF Len(parts) = 1 THEN parts[1]
    ELSE parts[1] \o sep \o str_join(sep, Tail(parts))

\* [f"{l}{col}{r}" for col in columns]
wrap_each(columns, l, r) == [i \in 1..Len(columns) |-> l \o columns[i] \o r]

\* columns_str of sample_table
columns_str(k, columns) ==
    IF columns # <<>>
    THEN IF k = "mock" THEN str_join(<<",", " ">>, columns)
         ELSE IF k = "postgresql" THEN str_join(<<",", " ">>, wrap_each(columns, <<"\"">>, <<"\"">>))
         ELSE str_join(<<",", " ">>, wrap_each(columns, <<"[">>, <<"]">>))
    ELSE <<"*">>

\* the query of sample_table
sample_query(k, p, cols) ==
    IF k = "mock"
    THEN <<"S", "E", "L", "E", "C", "T", " ">> \o cols \o <<" ", "F", "R", "O", "M", " ">> \o p.table_name
         \o <<" ", "L", "I", "M", "I", "T", " ">> \o str_of_int(p.row_count)
    ELSE IF k = "postgresql"
    THEN <<"S", "E", "L", "E", "C", "T", " ">> \o cols \o <<" ", "F", "R", "O", "M", " ", "\"">> \o p.table_name
         \o <<"\"", " ", "L", "I", "M", "I", "T", " ">> \o str_of_int(p.row_count)
    ELSE <<"S", "E", "L", "E", "C", "T", " ", "T", "O", "P", " ">> \o str_of_int(p.row_count) \o <<" ">> \o cols
         \o <<" ", "F", "R", "O", "M", " ", "[">> \o p.table_name \o <<"]">>

\* a list tool's result: the rows, or a one-element list holding the error
rows_or_error(g) ==
    IF g.raised THEN Return(g.d, <<[error |-> g.value]>>) ELSE Return(g.d, g.value)

\* <provider>.sample_table
sample_table(d, p, o) ==
    rows_or_error(db_sql_get(d, sample_query(d.kind, p, columns_str(d.kind, p.columns)), o))

---------------------------------------------------------------------------
(* Memory management tools.                                                *)

\* memory_data of store_memory; label is the key the provider uses for the
\* label ("Memory_Label", or "Memory_label" in the PostgreSQL provider)
memory_data(p, label) ==
    << [k \in {"Agent", label, "Memory", "Related_To", "First_Posted", "Times_Recalled",
               "Purge_After"} |->
          CASE k = "Agent" -> p.agent_name
            [] k = label -> p.memory_label
            [] k = "Memory" -> p.memory_content
            [] k = "Related_To" -> p.related_to_tags
            [] k = "First_Posted" -> now
            [] k = "Times_Recalled" -> 0
            [] k = "Purge_After" -> p.purge_after] >>

\* the end of MCPToolProvider.store_memory: the new id is the row count plus one
stored_generic(p, g) ==
    IF g.raised THEN Return(g.d, [error |-> g.value])
    ELSE Return(g.d, [memory_id |-> Len(g.value) + 1, agent |-> p.agent_name, stored |-> TRUE])

\* the end of store_memory of the other providers: the id is read back
stored_net(p, g, key) ==
    IF g.raised THEN Return(g.d, [error |-> g.value])
    ELSE Return(g.d, [memory_id |-> IF g.value # <<>> THEN g.value[1][key] ELSE None,
                      agent |-> p.agent_name, stored |-> TRUE])

\* store_memory after the insert: the query for the id, unless the insert raised
after_insert(p, ins, query, o) ==
    IF ins.raised THEN Return(ins.d, [error |-> ins.value])
    ELSE IF ins.d.kind = "mock" THEN stored_generic(p, db_sql_get(ins.d, query, o))
    ELSE IF ins.d.kind = "postgresql" THEN stored_net(p, db_sql_get(ins.d, query, o), "memory_id")
    ELSE stored_net(p, db_sql_get(ins.d, query, o), "Memory_ID")

\* MCPToolProvider.store_memory
store_memory_generic(d, p, o) ==
    after_insert(p, db_sql_insert(d, <<"A", "I", "_", "M", "e", "m", "o", "r", "i", "e", "s">>, memory_data(p, "Memory_Label"), o),
                 <<"S", "E", "L", "E", "C", "T", " ", "*", " ", "F", "R", "O", "M", " ", "A", "I", "_", "M", "e", "m", "o", "r", "i", "e", "s">>, o)

\* PostgreSQLMCPToolProvider.store_memory; the first replace('%s', ...)
\* substitutes every %s, so the second finds none
store_memory_pg(d, p, o) ==
    after_insert(p, db_sql_insert(d, <<"a", "i", "_", "m", "e", "m", "o", "r", "i", "e", "s">>, memory_data(p, "Memory_label"), o),
                 str_replace(
                     str_replace(
                         <<"\n", " ", " ", " ", " ", " ", " ", " ", " ", " ", " ", " ", " ", "S", "E", "L", "E", "C", "T", " ", "m", "e", "m", "o", "r", "y", "_", "i", "d", " ", "F", "R", "O", "M", " ", "a", "i", "_", "m", "e", "m", "o", "r", "i", "e", "s", " ", "\n", " ", " ", " ", " ", " ", " ", " ", " ", " ", " ", " ", " ", "W", "H", "E", "R", "E", " ", "a", "g", "e", "n", "t", " ", "=", " ", "%", "s", " ", "A", "N", "D", " ", "m", "e", "m", "o", "r", "y", "_", "l", "a", "b", "e", "l", " ", "=", " ", "%", "s", " ", "\n", " ", " ", " ", " ", " ", " ", " ", " ", " ", " ", " ", " ", "O", "R", "D", "E", "R", " ", "B", "Y", " ", "f", "i", "r", "s", "t", "_", "p", "o", "s", "t", "e", "d", " ", "D", "E", "S", "C", " ", "L", "I", "M", "I", "T", " ", "1", "\n", " ", " ", " ", " ", " ", " ", " ", " ", " ", " ", " ", " ">>,
                         <<"%", "s">>,
                                 <<"'">> \o sql_escape(p.agent_name, FALSE) \o <<"'">>),
                     <<"%", "s">>, <<"'">> \o sql_escape(p.memory_label, FALSE) \o <<"'">>),
                 o)

\* SQLServerMCPToolProvider.store_memory
store_memory_sqlserver(d, p, o) ==
    after_insert(p, db_sql_insert(d, <<"A", "I", "_", "M", "e", "m", "o", "r", "i", "e", "s">>, memory_data(p, "Memory_Label"), o),
                 <<"\n", " ", " ", " ", " ", " ", " ", " ", " ", " ", " ", " ", " ", "S", "E", "L", "E", "C", "T", " ", "T", "O", "P", " ", "1", " ", "M", "e", "m", "o", "r", "y", "_", "I", "D", " ", "F", "R", "O", "M", " ", "A", "I", "_", "M", "e", "m", "o", "r", "i", "e", "s", " ", "\n", " ", " ", " ", " ", " ", " ", " ", " ", " ", " ", " ", " ", "W", "H", "E", "R", "E", " ", "A", "g", "e", "n", "t", " ", "=", " ", "'">>
                 \o sql_escape(p.agent_name, FALSE)
                 \o <<"'", " ", "\n", " ", " ", " ", " ", " ", " ", " ", " ", " ", " ", " ", " ", " ", " ", "A", "N", "D", " ", "M", "e", "m", "o", "r", "y", "_", "L", "a", "b", "e", "l", " ", "=", " ", "'">>
                 \o sql_escape(p.memory_label, FALSE)
                 \o <<"'", "\n", " ", " ", " ", " ", " ", " ", " ", " ", " ", " ", " ", " ", "O", "R", "D", "E", "R", " ", "B", "Y", " ", "F", "i", "r", "s", "t", "_", "P", "o", "s", "t", "e", "d", " ", "D", "E", "S", "C", "\n", " ", " ", " ", " ", " ", " ", " ", " ", " ", " ", " ", " ">>,
                 o)

RECURSIVE update_recall_counts(_, _, _)
\* the loop continues with the other memories unless the update raised
next_recall(r, memories, o) ==
    IF r.raised THEN r ELSE update_recall_counts(r.d, memories, o)

\* the loop of MCPToolProvider.retrieve_memories that updates the recall
\* count of each returned memory
update_recall_counts(d, memories, o) ==
    IF memories = <<>> THEN Return(d, None)
    ELSE next_recall(
             db_sql_run(d,
                 <<"\n", " ", " ", " ", " ", " ", " ", " ", " ", " ", " ", " ", " ", " ", " ", " ", " ", "U", "P", "D", "A", "T", "E", " ", "A", "I", "_", "M", "e", "m", "o", "r", "i", "e", "s", " ", "\n", " ", " ", " ", " ", " ", " ", " ", " ", " ", " ", " ", " ", " ", " ", " ", " ", "S", "E", "T", " ", "T", "i", "m", "e", "s", "_", "R", "e", "c", "a", "l", "l", "e", "d", " ", "=", " ", "T", "i", "m", "e", "s", "_", "R", "e", "c", "a", "l", "l", "e", "d", " ", "+", " ", "1", ",", " ", "L", "a", "s", "t", "_", "R", "e", "c", "a", "l", "l", "e", "d", " ", "=", " ", "G", "E", "T", "D", "A", "T", "E", "(", ")", "\n", " ", " ", " ", " ", " ", " ", " ", " ", " ", " ", " ", " ", " ", " ", " ", " ", "W", "H", "E", "R", "E", " ", "M", "e", "m", "o", "r", "y", "_", "I", "D", " ", "=", " ">>
                 \o str_of_int(get(Head(memories), "Memory_ID", 0))
                 \o <<"\n", " ", " ", " ", " ", " ", " ", " ", " ", " ", " ", " ", " ", " ", " ", " ", " ">>,
                 o),
             Tail(memories), o)

\* [f"{l}{tag}{r}" for tag in tags], concatenated
RECURSIVE concat_wrapped(_, _, _)
concat_wrapped(tags, l, r) ==
    IF tags = <<>> THEN <<>> ELSE l \o Head(tags) \o r \o concat_wrapped(Tail(tags), l, r)

\* the end of retrieve_memories: the memories, or the error of the update
recalled(memories, u) ==
    IF u.raised THEN Return(u.d, <<[error |-> u.value]>>) ELSE Return(u.d, memories)

\* MCPToolProvider.retrieve_memories after the query
retrieved_generic(g, o) ==
    IF g.raised THEN Return(g.d, <<[error |-> g.value]>>)
    ELSE recalled(g.value, update_recall_counts(g.d, g.value, o))

\* MCPToolProvider.retrieve_memories for the tags of related_to_tags;
\* tags[0] raises IndexError when there is none
retrieve_tagged_generic(d, p, tags, o) ==
    IF tags = <<>> THEN Return(d, <<[error |-> "list index out of range"]>>)
    ELSE retrieved_generic(
             db_sql_get(d,
                 <<"\n", " ", " ", " ", " ", " ", " ", " ", " ", " ", " ", " ", " ", "S", "E", "L", "E", "C", "T", " ", "*", " ", "F", "R", "O", "M", " ", "A", "I", "_", "M", "e", "m", "o", "r", "i", "e", "s", " ", "\n", " ", " ", " ", " ", " ", " ", " ", " ", " ", " ", " ", " ", "W", "H", "E", "R", "E", " ", "A", "g", "e", "n", "t", " ", "=", " ", "'">>
                 \o p.agent_name
                 \o <<"'", " ", "\n", " ", " ", " ", " ", " ", " ", " ", " ", " ", " ", " ", " ", "A", "N", "D", " ", "(", "R", "e", "l", "a", "t", "e", "d", "_", "T", "o", " ", "L", "I", "K", "E", " ", "'", "%">>
                 \o tags[1]
                 \o <<"%", "'", "\n", " ", " ", " ", " ", " ", " ", " ", " ", " ", " ", " ", " ">>
                 \o concat_wrapped(Tail(tags), <<" ", "O", "R", " ", "R", "e", "l", "a", "t", "e", "d", "_", "T", "o", " ", "L", "I", "K", "E", " ", "'", "%">>, <<"%", "'">>)
                 \o <<")", " ", "L", "I", "M", "I", "T", " ">> \o str_of_int(p.limit),
                 o),
             o)

\* MCPToolProvider.retrieve_memories
retrieve_memories_generic(d, p, o) ==
    retrieve_tagged_generic(d, p, str_split(p.related_to_tags), o)

\* str(memory[key]) for each memory, joined by commas
memory_ids(memories, key) ==
    str_join(<<",">>, [i \in 1..Len(memories) |-> str_of_int(memories[i][key])])

\* the update statement of the PostgreSQL and SQL Server providers
update_query(k, memories) ==
    IF k = "postgresql"
    THEN <<"\n", " ", " ", " ", " ", " ", " ", " ", " ", " ", " ", " ", " ", " ", " ", " ", " ", "U", "P", "D", "A", "T", "E", " ", "a", "i", "_", "m", "e", "m", "o", "r", "i", "e", "s", " ", "\n", " ", " ", " ", " ", " ", " ", " ", " ", " ", " ", " ", " ", " ", " ", " ", " ", "S", "E", "T", " ", "t", "i", "m", "e", "s", "_", "r", "e", "c", "a", "l", "l", "e", "d", " ", "=", " ", "t", "i", "m", "e", "s", "_", "r", "e", "c", "a", "l", "l", "e", "d", " ", "+", " ", "1", ",", "\n", " ", " ", " ", " ", " ", " ", " ", " ", " ", " ", " ", " ", " ", " ", " ", " ", " ", " ", " ", " ", "l", "a", "s", "t", "_", "r", "e", "c", "a", "l", "l", "e", "d", " ", "=", " ", "C", "U", "R", "R", "E", "N", "T", "_", "T", "I", "M", "E", "S", "T", "A", "M", "P", "\n", " ", " ", " ", " ", " ", " ", " ", " ", " ", " ", " ", " ", " ", " ", " ", " ", "W", "H", "E", "R", "E", " ", "m", "e", "m", "o", "r", "y", "_", "i", "d", " ", "I", "N", " ", "(">>
         \o memory_ids(memories, "memory_id")
         \o <<")", "\n", " ", " ", " ", " ", " ", " ", " ", " ", " ", " ", " ", " ", " ", " ", " ", " ">>
    ELSE <<"\n", " ", " ", " ", " ", " ", " ", " ", " ", " ", " ", " ", " ", " ", " ", " ", " ", "U", "P", "D", "A", "T", "E", " ", "A", "I", "_", "M", "e", "m", "o", "r", "i", "e", "s", " ", "\n", " ", " ", " ", " ", " ", " ", " ", " ", " ", " ", " ", " ", " ", " ", " ", " ", "S", "E", "T", " ", "T", "i", "m", "e", "s", "_", "R", "e", "c", "a", "l", "l", "e", "d", " ", "=", " ", "T", "i", "m", "e", "s", "_", "R", "e", "c", "a", "l", "l", "e", "d", " ", "+", " ", "1", ",", "\n", " ", " ", " ", " ", " ", " ", " ", " ", " ", " ", " ", " ", " ", " ", " ", " ", " ", " ", " ", " ", "L", "a", "s", "t", "_", "R", "e", "c", "a", "l", "l", "e", "d", " ", "=", " ", "G", "E", "T", "D", "A", "T", "E", "(", ")", "\n", " ", " ", " ", " ", " ", " ", " ", " ", " ", " ", " ", " ", " ", " ", " ", " ", "W", "H", "E", "R", "E", " ", "M", "e", "m", "o", "r", "y", "_", "I", "D", " ", "I", "N", " ", "(">>
         \o memory_ids(memories, "Memory_ID")
         \o <<")", "\n", " ", " ", " ", " ", " ", " ", " ", " ", " ", " ", " ", " ", " ", " ", " ", " ">>

\* retrieve_memories of the PostgreSQL and SQL Server providers after the query
retrieved_net(g, o) ==
    IF g.raised THEN Return(g.d, <<[error |-> g.value]>>)
    ELSE IF g.value = <<>> THEN Return(g.d, g.value)
    ELSE recalled(g.value, db_sql_run(g.d, update_query(g.d.kind, g.value), o))

\* [f"{l}{escaped_tag}{r}" for tag in tags]
tag_conditions(tags, l, r) == [i \in 1..Len(tags) |-> l \o sql_escape(tags[i], FALSE) \o r]

\* PostgreSQLMCPToolProvider.retrieve_memories for the tags of related_to_tags
retrieve_tagged_pg(d, p, tags, o) ==
    IF tags = <<>> THEN Return(d, <<>>)
    ELSE retrieved_net(
             db_sql_get(d,
                 <<"\n", " ", " ", " ", " ", " ", " ", " ", " ", " ", " ", " ", " ", "S", "E", "L", "E", "C", "T", " ", "*", " ", "F", "R", "O", "M", " ", "a", "i", "_", "m", "e", "m", "o", "r", "i", "e", "s", " ", "\n", " ", " ", " ", " ", " ", " ", " ", " ", " ", " ", " ", " ", "W", "H", "E", "R", "E", " ", "a", "g", "e", "n", "t", " ", "=", " ", "'">>
                 \o sql_escape(p.agent_name, FALSE)
                 \o <<"'", " ", "\n", " ", " ", " ", " ", " ", " ", " ", " ", " ", " ", " ", " ", "A", "N", "D", " ", "(">>
                 \o str_join(<<" ", "O", "R", " ">>, tag_conditions(tags, <<"r", "e", "l", "a", "t", "e", "d", "_", "t", "o", " ", "I", "L", "I", "K", "E", " ", "'", "%">>, <<"%", "'">>))
                 \o <<")", "\n", " ", " ", " ", " ", " ", " ", " ", " ", " ", " ", " ", " ", "O", "R", "D", "E", "R", " ", "B", "Y", " ", "t", "i", "m", "e", "s", "_", "r", "e", "c", "a", "l", "l", "e", "d", " ", "D", "E", "S", "C", ",", " ", "l", "a", "s", "t", "_", "r", "e", "c", "a", "l", "l", "e", "d", " ", "D", "E", "S", "C", "\n", " ", " ", " ", " ", " ", " ", " ", " ", " ", " ", " ", " ", "L", "I", "M", "I", "T", " ">>
                 \o str_of_int(p.limit) \o <<"\n", " ", " ", " ", " ", " ", " ", " ", " ", " ", " ", " ", " ">>,
                 o),
             o)

\* PostgreSQLMCPToolProvider.retrieve_memories
retrieve_memories_pg(d, p, o) == retrieve_tagged_pg(d, p, str_split(p.related_to_tags), o)

\* SQLServerMCPToolProvider.retrieve_memories for the tags of related_to_tags
retrieve_tagged_sqlserver(d, p, tags, o) ==
    IF tags = <<>> THEN Return(d, <<>>)
    ELSE retrieved_net(
             db_sql_get(d,
                 <<"\n", " ", " ", " ", " ", " ", " ", " ", " ", " ", " ", " ", " ", "S", "E", "L", "E", "C", "T", " ", "T", "O", "P", " ">> \o str_of_int(p.limit)
                 \o <<" ", "*", " ", "F", "R", "O", "M", " ", "A", "I", "_", "M", "e", "m", "o", "r", "i", "e", "s", " ", "\n", " ", " ", " ", " ", " ", " ", " ", " ", " ", " ", " ", " ", "W", "H", "E", "R", "E", " ", "A", "g", "e", "n", "t", " ", "=", " ", "'">>
                 \o sql_escape(p.agent_name, FALSE)
                 \o <<"'", " ", "\n", " ", " ", " ", " ", " ", " ", " ", " ", " ", " ", " ", " ", "A", "N", "D", " ", "(">>
                 \o str_join(<<" ", "O", "R", " ">>, tag_conditions(tags, <<"R", "e", "l", "a", "t", "e", "d", "_", "T", "o", " ", "L", "I", "K", "E", " ", "'", "%">>, <<"%", "'">>))
                 \o <<")", "\n", " ", " ", " ", " ", " ", " ", " ", " ", " ", " ", " ", " ", "O", "R", "D", "E", "R", " ", "B", "Y", " ", "T", "i", "m", "e", "s", "_", "R", "e", "c", "a", "l", "l", "e", "d", " ", "D", "E", "S", "C", ",", " ", "L", "a", "s", "t", "_", "R", "e", "c", "a", "l", "l", "e", "d", " ", "D", "E", "S", "C", "\n", " ", " ", " ", " ", " ", " ", " ", " ", " ", " ", " ", " ">>,
                 o),
             o)

\* SQLServerMCPToolProvider.retrieve_memories
retrieve_memories_sqlserver(d, p, o) ==
    retrieve_tagged_sqlserver(d, p, str_split(p.related_to_tags), o)

\* the statement of search_memories of the provider of kind k; agent and text
\* are the values as the provider puts them into the statement
search_query(k, agent, text, limit) ==
    IF k = "mock"
    THEN <<"\n", " ", " ", " ", " ", " ", " ", " ", " ", " ", " ", " ", " ", "S", "E", "L", "E", "C", "T", " ", "*", " ", "F", "R", "O", "M", " ", "A", "I", "_", "M", "e", "m", "o", "r", "i", "e", "s", " ", "\n", " ", " ", " ", " ", " ", " ", " ", " ", " ", " ", " ", " ", "W", "H", "E", "R", "E", " ", "A", "g", "e", "n", "t", " ", "=", " ", "'">> \o agent
         \o <<"'", " ", "\n", " ", " ", " ", " ", " ", " ", " ", " ", " ", " ", " ", " ", "A", "N", "D", " ", "(", "M", "e", "m", "o", "r", "y", " ", "L", "I", "K", "E", " ", "'", "%">> \o text
         \o <<"%", "'", " ", "O", "R", " ", "M", "e", "m", "o", "r", "y", "_", "L", "a", "b", "e", "l", " ", "L", "I", "K", "E", " ", "'", "%">> \o text
         \o <<"%", "'", ")", "\n", " ", " ", " ", " ", " ", " ", " ", " ", " ", " ", " ", " ", "L", "I", "M", "I", "T", " ">> \o str_of_int(limit) \o <<"\n", " ", " ", " ", " ", " ", " ", " ", " ", " ", " ", " ", " ">>
    ELSE IF k = "postgresql"
    THEN <<"\n", " ", " ", " ", " ", " ", " ", " ", " ", " ", " ", " ", " ", "S", "E", "L", "E", "C", "T", " ", "*", " ", "F", "R", "O", "M", " ", "a", "i", "_", "m", "e", "m", "o", "r", "i", "e", "s", " ", "\n", " ", " ", " ", " ", " ", " ", " ", " ", " ", " ", " ", " ", "W", "H", "E", "R", "E", " ", "a", "g", "e", "n", "t", " ", "=", " ", "'">> \o agent
         \o <<"'", " ", "\n", " ", " ", " ", " ", " ", " ", " ", " ", " ", " ", " ", " ", "A", "N", "D", " ", "(", "m", "e", "m", "o", "r", "y", " ", "I", "L", "I", "K", "E", " ", "'", "%">> \o text
         \o <<"%", "'", " ", "O", "R", " ", "m", "e", "m", "o", "r", "y", "_", "l", "a", "b", "e", "l", " ", "I", "L", "I", "K", "E", " ", "'", "%">> \o text
         \o <<"%", "'", ")", "\n", " ", " ", " ", " ", " ", " ", " ", " ", " ", " ", " ", " ", "O", "R", "D", "E", "R", " ", "B", "Y", " ", "t", "i", "m", "e", "s", "_", "r", "e", "c", "a", "l", "l", "e", "d", " ", "D", "E", "S", "C", "\n", " ", " ", " ", " ", " ", " ", " ", " ", " ", " ", " ", " ", "L", "I", "M", "I", "T", " ">>
         \o str_of_int(limit) \o <<"\n", " ", " ", " ", " ", " ", " ", " ", " ", " ", " ", " ", " ">>
    ELSE <<"\n", " ", " ", " ", " ", " ", " ", " ", " ", " ", " ", " ", " ", "S", "E", "L", "E", "C", "T", " ", "T", "O", "P", " ">> \o str_of_int(limit)
         \o <<" ", "*", " ", "F", "R", "O", "M", " ", "A", "I", "_", "M", "e", "m", "o", "r", "i", "e", "s", " ", "\n", " ", " ", " ", " ", " ", " ", " ", " ", " ", " ", " ", " ", "W", "H", "E", "R", "E", " ", "A", "g", "e", "n", "t", " ", "=", " ", "'">> \o agent
         \o <<"'", " ", "\n", " ", " ", " ", " ", " ", " ", " ", " ", " ", " ", " ", " ", "A", "N", "D", " ", "(", "M", "e", "m", "o", "r", "y", " ", "L", "I", "K", "E", " ", "'", "%">> \o text
         \o <<"%", "'", " ", "O", "R", " ", "M", "e", "m", "o", "r", "y", "_", "L", "a", "b", "e", "l", " ", "L", "I", "K", "E", " ", "'", "%">> \o text
         \o <<"%", "'", ")", "\n", " ", " ", " ", " ", " ", " ", " ", " ", " ", " ", " ", " ", "O", "R", "D", "E", "R", " ", "B", "Y", " ", "T", "i", "m", "e", "s", "_", "R", "e", "c", "a", "l", "l", "e", "d", " ", "D", "E", "S", "C", "\n", " ", " ", " ", " ", " ", " ", " ", " ", " ", " ", " ", " ">>

\* a search that counts a recall of each memory found, as retrieve_memories
\* does
search_memories_recalling(d, p, o) ==
    retrieve_memories_generic(
        d, [agent_name |-> p.agent_name, related_to_tags |-> p.search_text, limit |-> p.limit], o)

\* <provider>.search_memories; only the generic provider leaves the values
\* unescaped
search_memories(d, p, o) ==
    rows_or_error(
        db_sql_get(d,
            IF d.kind = "mock"
            THEN search_query(d.kind, p.agent_name, p.search_text, p.limit)
            ELSE search_query(d.kind, sql_escape(p.agent_name, FALSE),
                              sql_escape(p.search_text, FALSE), p.limit),
            o))

\* a dict tool's result: the value, or a dict holding the error
value_or_error(r, value) ==
    IF r.raised THEN Return(r.d, [error |-> r.value]) ELSE Return(r.d, value)

\* the statement of update_memory; related_to_tags is set when it is given
\* and not empty
memory_update_query(k, p) ==
    (IF k = "postgresql"
     THEN <<"\n", " ", " ", " ", " ", " ", " ", " ", " ", " ", " ", " ", " ", "U", "P", "D", "A", "T", "E", " ", "a", "i", "_", "m", "e", "m", "o", "r", "i", "e", "s", " ", "\n", " ", " ", " ", " ", " ", " ", " ", " ", " ", " ", " ", " ", "S", "E", "T", " ", "m", "e", "m", "o", "r", "y", " ", "=", " ", "'">>
     ELSE <<"\n", " ", " ", " ", " ", " ", " ", " ", " ", " ", " ", " ", " ", "U", "P", "D", "A", "T", "E", " ", "A", "I", "_", "M", "e", "m", "o", "r", "i", "e", "s", " ", "\n", " ", " ", " ", " ", " ", " ", " ", " ", " ", " ", " ", " ", "S", "E", "T", " ", "M", "e", "m", "o", "r", "y", " ", "=", " ", "'">>)
    \o sql_escape(p.memory_content, FALSE) \o <<"'">>
    \o (IF p.related_to_tags \in {None, <<>>} THEN <<>>
        ELSE (IF k = "postgresql" THEN <<",", " ", "r", "e", "l", "a", "t", "e", "d", "_", "t", "o", " ", "=", " ", "'">> ELSE <<",", " ", "R", "e", "l", "a", "t", "e", "d", "_", "T", "o", " ", "=", " ", "'">>)
             \o sql_escape(p.related_to_tags, FALSE) \o <<"'">>)
    \o (IF k = "postgresql" THEN <<"\n", " ", " ", " ", " ", " ", " ", " ", " ", " ", " ", " ", " ", "W", "H", "E", "R", "E", " ", "m", "e", "m", "o", "r", "y", "_", "i", "d", " ", "=", " ">>
        ELSE <<"\n", " ", " ", " ", " ", " ", " ", " ", " ", " ", " ", " ", " ", "W", "H", "E", "R", "E", " ", "M", "e", "m", "o", "r", "y", "_", "I", "D", " ", "=", " ">>)
    \o str_of_int(p.memory_id) \o <<"\n", " ", " ", " ", " ", " ", " ", " ", " ", " ", " ", " ", " ">>

\* <provider>.update_memory
update_memory(d, p, o) ==
    value_or_error(db_sql_run(d, memory_update_query(d.kind, p), o),
                   [memory_id |-> p.memory_id, updated |-> TRUE])

\* <provider>.delete_memory
delete_memory(d, p, o) ==
    value_or_error(
        db_sql_run(d,
            (IF d.kind = "postgresql" THEN <<"D", "E", "L", "E", "T", "E", " ", "F", "R", "O", "M", " ", "a", "i", "_", "m", "e", "m", "o", "r", "i", "e", "s", " ", "W", "H", "E", "R", "E", " ", "m", "e", "m", "o", "r", "y", "_", "i", "d", " ", "=", " ">>
             ELSE <<"D", "E", "L", "E", "T", "E", " ", "F", "R", "O", "M", " ", "A", "I", "_", "M", "e", "m", "o", "r", "i", "e", "s", " ", "W", "H", "E", "R", "E", " ", "M", "e", "m", "o", "r", "y", "_", "I", "D", " ", "=", " ">>)
            \o str_of_int(p.memory_id),
            o),
        [memory_id |-> p.memory_id, deleted |-> TRUE])

RECURSIVE all_tags(_, _)
\* the tags of every row, in row order: str(row.get(key, '')).split()
all_tags(rows, key) ==
    IF rows = <<>> THEN <<>>
    ELSE str_split(get(Head(rows), key, <<>>)) \o all_tags(Tail(rows), key)

\* tag_counts[tag] = tag_counts.get(tag, 0) + 1; a dict keeps insertion order
count_tag(counts, tag) ==
    IF \E i \in 1..Len(counts) : counts[i][1] = tag
    THEN [i \in 1..Len(counts) |->
             IF counts[i][1] = tag THEN <<tag, counts[i][2] + 1>> ELSE counts[i]]
    ELSE Append(counts, <<tag, 1>>)

RECURSIVE count_tags(_, _)
\* the loop over the tags that fills tag_counts
count_tags(counts, tags) ==
    IF tags = <<>> THEN counts ELSE count_tags(count_tag(counts, Head(tags)), Tail(tags))

RECURSIVE insert_by_count(_, _)
\* x, which preceded every item of the sorted list s, put in its place
insert_by_count(x, s) ==
    IF s = <<>> THEN <<x>>
    ELSE IF s[1][2] <= x[2] THEN <<x>> \o s
    ELSE <<s[1]>> \o insert_by_count(x, Tail(s))

RECURSIVE sorted_by_count(_)
\* sorted(tag_counts.items(), key=lambda x: x[1], reverse=True): stable
sorted_by_count(items) ==
    IF items = <<>> THEN <<>>
    ELSE insert_by_count(Head(items), sorted_by_count(Tail(items)))

\* get_memory_stats after the tags query: results[0] with top_tags set
stats_with_tags(stats, t, key) ==
    IF t.raised THEN Return(t.d, [error |-> t.value])
    ELSE Return(t.d,
                [top_tags |-> slice_to(sorted_by_count(count_tags(<<>>, all_tags(t.value, key))), 5)]
                @@ stats)

\* get_memory_stats after the statistics query
stats_of(g, tags_query, key, o) ==
    IF g.raised THEN Return(g.d, [error |-> g.value])
    ELSE IF g.value = <<>> THEN Return(g.d, [total_memories |-> 0])
    ELSE stats_with_tags(g.value[1], db_sql_get(g.d, tags_query, o), key)

\* <provider>.get_memory_stats; only the generic provider leaves the name
\* unescaped
get_memory_stats(d, p, o) ==
    IF d.kind = "mock"
    THEN stats_of(
             db_sql_get(d,
                 <<"\n", " ", " ", " ", " ", " ", " ", " ", " ", " ", " ", " ", " ", "S", "E", "L", "E", "C", "T", " ", "\n", " ", " ", " ", " ", " ", " ", " ", " ", " ", " ", " ", " ", " ", " ", " ", " ", "C", "O", "U", "N", "T", "(", "*", ")", " ", "a", "s", " ", "t", "o", "t", "a", "l", "_", "m", "e", "m", "o", "r", "i", "e", "s", ",", "\n", " ", " ", " ", " ", " ", " ", " ", " ", " ", " ", " ", " ", " ", " ", " ", " ", "A", "V", "G", "(", "T", "i", "m", "e", "s", "_", "R", "e", "c", "a", "l", "l", "e", "d", ")", " ", "a", "s", " ", "a", "v", "g", "_", "r", "e", "c", "a", "l", "l", "s", ",", "\n", " ", " ", " ", " ", " ", " ", " ", " ", " ", " ", " ", " ", " ", " ", " ", " ", "M", "A", "X", "(", "T", "i", "m", "e", "s", "_", "R", "e", "c", "a", "l", "l", "e", "d", ")", " ", "a", "s", " ", "m", "a", "x", "_", "r", "e", "c", "a", "l", "l", "s", ",", "\n", " ", " ", " ", " ", " ", " ", " ", " ", " ", " ", " ", " ", " ", " ", " ", " ", "C", "O", "U", "N", "T", "(", "C", "A", "S", "E", " ", "W", "H", "E", "N", " ", "T", "i", "m", "e", "s", "_", "R", "e", "c", "a", "l", "l", "e", "d", " ", "=", " ", "0", " ", "T", "H", "E", "N", " ", "1", " ", "E", "N", "D", ")", " ", "a", "s", " ", "u", "n", "u", "s", "e", "d", "_", "m", "e", "m", "o", "r", "i", "e", "s", "\n", " ", " ", " ", " ", " ", " ", " ", " ", " ", " ", " ", " ", "F", "R", "O", "M", " ", "A", "I", "_", "M", "e", "m", "o", "r", "i", "e", "s", " ", "\n", " ", " ", " ", " ", " ", " ", " ", " ", " ", " ", " ", " ", "W", "H", "E", "R", "E", " ", "A", "g", "e", "n", "t", " ", "=", " ", "'">>
                 \o p.agent_name \o <<"'", "\n", " ", " ", " ", " ", " ", " ", " ", " ", " ", " ", " ", " ">>,
                 o),
             <<"\n", " ", " ", " ", " ", " ", " ", " ", " ", " ", " ", " ", " ", " ", " ", " ", " ", "S", "E", "L", "E", "C", "T", " ", "R", "e", "l", "a", "t", "e", "d", "_", "T", "o", " ", "F", "R", "O", "M", " ", "A", "I", "_", "M", "e", "m", "o", "r", "i", "e", "s", " ", "W", "H", "E", "R", "E", " ", "A", "g", "e", "n", "t", " ", "=", " ", "'">>
             \o p.agent_name \o <<"'", "\n", " ", " ", " ", " ", " ", " ", " ", " ", " ", " ", " ", " ", " ", " ", " ", " ">>,
             "Related_To", o)
    ELSE IF d.kind = "postgresql"
    THEN stats_of(
             db_sql_get(d,
                 <<"\n", " ", " ", " ", " ", " ", " ", " ", " ", " ", " ", " ", " ", "S", "E", "L", "E", "C", "T", " ", "\n", " ", " ", " ", " ", " ", " ", " ", " ", " ", " ", " ", " ", " ", " ", " ", " ", "C", "O", "U", "N", "T", "(", "*", ")", " ", "a", "s", " ", "t", "o", "t", "a", "l", "_", "m", "e", "m", "o", "r", "i", "e", "s", ",", "\n", " ", " ", " ", " ", " ", " ", " ", " ", " ", " ", " ", " ", " ", " ", " ", " ", "C", "O", "A", "L", "E", "S", "C", "E", "(", "A", "V", "G", "(", "t", "i", "m", "e", "s", "_", "r", "e", "c", "a", "l", "l", "e", "d", ")", ",", " ", "0", ")", " ", "a", "s", " ", "a", "v", "g", "_", "r", "e", "c", "a", "l", "l", "s", ",", "\n", " ", " ", " ", " ", " ", " ", " ", " ", " ", " ", " ", " ", " ", " ", " ", " ", "C", "O", "A", "L", "E", "S", "C", "E", "(", "M", "A", "X", "(", "t", "i", "m", "e", "s", "_", "r", "e", "c", "a", "l", "l", "e", "d", ")", ",", " ", "0", ")", " ", "a", "s", " ", "m", "a", "x", "_", "r", "e", "c", "a", "l", "l", "s", ",", "\n", " ", " ", " ", " ", " ", " ", " ", " ", " ", " ", " ", " ", " ", " ", " ", " ", "C", "O", "U", "N", "T", "(", "C", "A", "S", "E", " ", "W", "H", "E", "N", " ", "t", "i", "m", "e", "s", "_", "r", "e", "c", "a", "l", "l", "e", "d", " ", "=", " ", "0", " ", "T", "H", "E", "N", " ", "1", " ", "E", "N", "D", ")", " ", "a", "s", " ", "u", "n", "u", "s", "e", "d", "_", "m", "e", "m", "o", "r", "i", "e", "s", "\n", " ", " ", " ", " ", " ", " ", " ", " ", " ", " ", " ", " ", "F", "R", "O", "M", " ", "a", "i", "_", "m", "e", "m", "o", "r", "i", "e", "s", " ", "\n", " ", " ", " ", " ", " ", " ", " ", " ", " ", " ", " ", " ", "W", "H", "E", "R", "E", " ", "a", "g", "e", "n", "t", " ", "=", " ", "'">>
                 \o sql_escape(p.agent_name, FALSE) \o <<"'", "\n", " ", " ", " ", " ", " ", " ", " ", " ", " ", " ", " ", " ">>,
                 o),
             <<"\n", " ", " ", " ", " ", " ", " ", " ", " ", " ", " ", " ", " ", " ", " ", " ", " ", "S", "E", "L", "E", "C", "T", " ", "r", "e", "l", "a", "t", "e", "d", "_", "t", "o", " ", "F", "R", "O", "M", " ", "a", "i", "_", "m", "e", "m", "o", "r", "i", "e", "s", " ", "\n", " ", " ", " ", " ", " ", " ", " ", " ", " ", " ", " ", " ", " ", " ", " ", " ", "W", "H", "E", "R", "E", " ", "a", "g", "e", "n", "t", " ", "=", " ", "'">>
             \o sql_escape(p.agent_name, FALSE)
             \o <<"'", "\n", " ", " ", " ", " ", " ", " ", " ", " ", " ", " ", " ", " ", " ", " ", " ", " ", " ", " ", "A", "N", "D", " ", "r", "e", "l", "a", "t", "e", "d", "_", "t", "o", " ", "I", "S", " ", "N", "O", "T", " ", "N", "U", "L", "L", " ", "A", "N", "D", " ", "r", "e", "l", "a", "t", "e", "d", "_", "t", "o", " ", "!", "=", " ", "'", "'", "\n", " ", " ", " ", " ", " ", " ", " ", " ", " ", " ", " ", " ", " ", " ", " ", " ">>,
             "related_to", o)
    ELSE stats_of(
             db_sql_get(d,
                 <<"\n", " ", " ", " ", " ", " ", " ", " ", " ", " ", " ", " ", " ", "S", "E", "L", "E", "C", "T", " ", "\n", " ", " ", " ", " ", " ", " ", " ", " ", " ", " ", " ", " ", " ", " ", " ", " ", "C", "O", "U", "N", "T", "(", "*", ")", " ", "a", "s", " ", "t", "o", "t", "a", "l", "_", "m", "e", "m", "o", "r", "i", "e", "s", ",", "\n", " ", " ", " ", " ", " ", " ", " ", " ", " ", " ", " ", " ", " ", " ", " ", " ", "A", "V", "G", "(", "C", "A", "S", "T", "(", "T", "i", "m", "e", "s", "_", "R", "e", "c", "a", "l", "l", "e", "d", " ", "a", "s", " ", "F", "L", "O", "A", "T", ")", ")", " ", "a", "s", " ", "a", "v", "g", "_", "r", "e", "c", "a", "l", "l", "s", ",", "\n", " ", " ", " ", " ", " ", " ", " ", " ", " ", " ", " ", " ", " ", " ", " ", " ", "M", "A", "X", "(", "T", "i", "m", "e", "s", "_", "R", "e", "c", "a", "l", "l", "e", "d", ")", " ", "a", "s", " ", "m", "a", "x", "_", "r", "e", "c", "a", "l", "l", "s", ",", "\n", " ", " ", " ", " ", " ", " ", " ", " ", " ", " ", " ", " ", " ", " ", " ", " ", "C", "O", "U", "N", "T", "(", "C", "A", "S", "E", " ", "W", "H", "E", "N", " ", "T", "i", "m", "e", "s", "_", "R", "e", "c", "a", "l", "l", "e", "d", " ", "=", " ", "0", " ", "T", "H", "E", "N", " ", "1", " ", "E", "N", "D", ")", " ", "a", "s", " ", "u", "n", "u", "s", "e", "d", "_", "m", "e", "m", "o", "r", "i", "e", "s", "\n", " ", " ", " ", " ", " ", " ", " ", " ", " ", " ", " ", " ", "F", "R", "O", "M", " ", "A", "I", "_", "M", "e", "m", "o", "r", "i", "e", "s", " ", "\n", " ", " ", " ", " ", " ", " ", " ", " ", " ", " ", " ", " ", "W", "H", "E", "R", "E", " ", "A", "g", "e", "n", "t", " ", "=", " ", "'">>
                 \o sql_escape(p.agent_name, FALSE) \o <<"'", "\n", " ", " ", " ", " ", " ", " ", " ", " ", " ", " ", " ", " ">>,
                 o),
             <<"\n", " ", " ", " ", " ", " ", " ", " ", " ", " ", " ", " ", " ", " ", " ", " ", " ", "S", "E", "L", "E", "C", "T", " ", "R", "e", "l", "a", "t", "e", "d", "_", "T", "o", " ", "F", "R", "O", "M", " ", "A", "I", "_", "M", "e", "m", "o", "r", "i", "e", "s", " ", "\n", " ", " ", " ", " ", " ", " ", " ", " ", " ", " ", " ", " ", " ", " ", " ", " ", "W", "H", "E", "R", "E", " ", "A", "g", "e", "n", "t", " ", "=", " ", "'">>
             \o sql_escape(p.agent_name, FALSE)
             \o <<"'", "\n", " ", " ", " ", " ", " ", " ", " ", " ", " ", " ", " ", " ", " ", " ", " ", " ", " ", " ", "A", "N", "D", " ", "R", "e", "l", "a", "t", "e", "d", "_", "T", "o", " ", "I", "S", " ", "N", "O", "T", " ", "N", "U", "L", "L", " ", "A", "N", "D", " ", "R", "e", "l", "a", "t", "e", "d", "_", "T", "o", " ", "!", "=", " ", "'", "'", "\n", " ", " ", " ", " ", " ", " ", " ", " ", " ", " ", " ", " ", " ", " ", " ", " ">>,
             "Related_To", o)

---------------------------------------------------------------------------
(* Connection management and schema discovery tools.                       *)

\* PostgreSQLDataLink.test_connection once entered: a failure is logged and
\* answered with False
connection_tested(d1, o) ==
    IF ~fails(d1, o) THEN Return(d1, TRUE)
    ELSE IF o.fault = "connect" THEN Return(log(connect_failure(d1), "error"), FALSE)
    ELSE Return(log(d1, "error"), FALSE)

\* PostgreSQLDataLink.test_connection
test_connection(d0, o) == connection_tested(called(d0, "test_connection", <<>>), o)

\* connect_to_database after the test query; without a row the SQL Server
\* provider reports a failed test and test_result[0] of the PostgreSQL
\* provider raises IndexError
connection_status(p, g) ==
    IF g.raised THEN Return(g.d, [connected |-> FALSE, error |-> g.value])
    ELSE IF g.d.kind = "mock"
    THEN Return(g.d, [connected |-> TRUE, server |-> p.server_instance,
                      database |-> p.database_name, test_result |-> g.value])
    ELSE IF g.value = <<>>
    THEN Return(g.d, [connected |-> FALSE,
                      error |-> IF g.d.kind = "postgresql" THEN "list index out of range"
                                ELSE "Database connection test failed"])
    ELSE Return(g.d, [connected |-> TRUE, server |-> p.server_instance,
                      database |-> p.database_name,
                      current_database |-> g.value[1].current_database,
                      current_user |-> g.value[1].current_user])

\* PostgreSQLMCPToolProvider.connect_to_database after test_connection
connect_tested(p, t, o) ==
    IF ~t.value
    THEN Return(t.d, [connected |-> FALSE, error |-> "Database connection test failed"])
    ELSE connection_status(p, db_sql_get(t.d, <<"S", "E", "L", "E", "C", "T", " ", "c", "u", "r", "r", "e", "n", "t", "_", "d", "a", "t", "a", "b", "a", "s", "e", "(", ")", ",", " ", "c", "u", "r", "r", "e", "n", "t", "_", "u", "s", "e", "r">>, o))

\* <provider>.connect_to_database
connect_to_database(d, p, o) ==
    IF d.kind = "mock"
    THEN connection_status(p, db_sql_get(d, <<"S", "E", "L", "E", "C", "T", " ", "1", " ", "a", "s", " ", "c", "o", "n", "n", "e", "c", "t", "i", "o", "n", "_", "t", "e", "s", "t">>, o))
    ELSE IF d.kind = "postgresql" THEN connect_tested(p, test_connection(d, o), o)
    ELSE connection_status(
             p,
             db_sql_get(d, <<"S", "E", "L", "E", "C", "T", " ", "D", "B", "_", "N", "A", "M", "E", "(", ")", " ", "a", "s", " ", "c", "u", "r", "r", "e", "n", "t", "_", "d", "a", "t", "a", "b", "a", "s", "e", ",", " ", "S", "Y", "S", "T", "E", "M", "_", "U", "S", "E", "R", " ", "a", "s", " ", "c", "u", "r", "r", "e", "n", "t", "_", "u", "s", "e", "r">>, o))

\* the fallback of list_databases of the PostgreSQL and SQL Server providers:
\* the current database, or a default name when that query fails as well
fallback_database(g, default) ==
    IF g.raised \/ g.value = <<>> THEN Return(g.d, <<default>>)
    ELSE IF "current_database" \notin DOMAIN g.value[1] THEN Return(g.d, <<default>>)
    ELSE Return(g.d, <<g.value[1].current_database>>)

\* list_databases after the query: the names, or the fallback of the
\* provider when the query raised or a row has no such key
databases_listed(g, key, o) ==
    IF ~g.raised /\ (\A i \in 1..Len(g.value) : key \in DOMAIN g.value[i])
    THEN Return(g.d, [i \in 1..Len(g.value) |-> g.value[i][key]])
    ELSE IF g.d.kind = "mock"
    THEN Return(g.d, <<<<"T", "r", "i", "A", "I", "_", "M", "a", "i", "n">>, <<"S", "a", "l", "e", "s", "D", "B">>, <<"C", "u", "s", "t", "o", "m", "e", "r", "D", "B">>, <<"I", "n", "v", "e", "n", "t", "o", "r", "y", "D", "B">>>>)
    ELSE IF g.d.kind = "postgresql"
    THEN fallback_database(db_sql_get(g.d, <<"S", "E", "L", "E", "C", "T", " ", "c", "u", "r", "r", "e", "n", "t", "_", "d", "a", "t", "a", "b", "a", "s", "e", "(", ")">>, o), <<"t", "r", "i", "a", "i", "_", "t", "e", "s", "t">>)
    ELSE fallback_database(db_sql_get(g.d, <<"S", "E", "L", "E", "C", "T", " ", "D", "B", "_", "N", "A", "M", "E", "(", ")", " ", "a", "s", " ", "c", "u", "r", "r", "e", "n", "t", "_", "d", "a", "t", "a", "b", "a", "s", "e">>, o),
                          <<"T", "r", "i", "A", "I", "_", "M", "a", "i", "n">>)

\* <provider>.list_databases
list_databases(d, p, o) ==
    IF d.kind = "mock"
    THEN databases_listed(
             db_sql_get(d, <<"S", "E", "L", "E", "C", "T", " ", "n", "a", "m", "e", " ", "F", "R", "O", "M", " ", "s", "y", "s", ".", "d", "a", "t", "a", "b", "a", "s", "e", "s", " ", "W", "H", "E", "R", "E", " ", "d", "a", "t", "a", "b", "a", "s", "e", "_", "i", "d", " ", ">", " ", "4">>, o),
             "name", o)
    ELSE IF d.kind = "postgresql"
    THEN databases_listed(
             db_sql_get(d, <<"S", "E", "L", "E", "C", "T", " ", "d", "a", "t", "n", "a", "m", "e", " ", "F", "R", "O", "M", " ", "p", "g", "_", "d", "a", "t", "a", "b", "a", "s", "e", " ", "W", "H", "E", "R", "E", " ", "d", "a", "t", "a", "l", "l", "o", "w", "c", "o", "n", "n", " ", "=", " ", "T", "R", "U", "E", " ", "O", "R", "D", "E", "R", " ", "B", "Y", " ", "d", "a", "t", "n", "a", "m", "e">>, o),
             "datname", o)
    ELSE databases_listed(
             db_sql_get(d, <<"S", "E", "L", "E", "C", "T", " ", "n", "a", "m", "e", " ", "F", "R", "O", "M", " ", "s", "y", "s", ".", "d", "a", "t", "a", "b", "a", "s", "e", "s", " ", "W", "H", "E", "R", "E", " ", "d", "a", "t", "a", "b", "a", "s", "e", "_", "i", "d", " ", ">", " ", "4", " ", "O", "R", "D", "E", "R", " ", "B", "Y", " ", "n", "a", "m", "e">>, o),
             "name", o)

\* "<what>" in object_types, with the default of the provider
wanted(k, p, what) ==
    IF p.object_types = None THEN what \in {"tables", "views"} \/ k = "mock"
    ELSE \E i \in 1..Len(p.object_types) : p.object_types[i] = what

\* the statement of get_schema_info for the tables or the views
schema_query(k, what, database_name) ==
    IF k = "postgresql"
    THEN IF what = "tables"
         THEN <<"\n", " ", " ", " ", " ", " ", " ", " ", " ", " ", " ", " ", " ", " ", " ", " ", " ", "S", "E", "L", "E", "C", "T", " ", "t", "a", "b", "l", "e", "_", "n", "a", "m", "e", ",", " ", "t", "a", "b", "l", "e", "_", "t", "y", "p", "e", " ", "\n", " ", " ", " ", " ", " ", " ", " ", " ", " ", " ", " ", " ", " ", " ", " ", " ", "F", "R", "O", "M", " ", "i", "n", "f", "o", "r", "m", "a", "t", "i", "o", "n", "_", "s", "c", "h", "e", "m", "a", ".", "t", "a", "b", "l", "e", "s", " ", "\n", " ", " ", " ", " ", " ", " ", " ", " ", " ", " ", " ", " ", " ", " ", " ", " ", "W", "H", "E", "R", "E", " ", "t", "a", "b", "l", "e", "_", "s", "c", "h", "e", "m", "a", " ", "=", " ", "'", "p", "u", "b", "l", "i", "c", "'", "\n", " ", " ", " ", " ", " ", " ", " ", " ", " ", " ", " ", " ", " ", " ", " ", " ", "O", "R", "D", "E", "R", " ", "B", "Y", " ", "t", "a", "b", "l", "e", "_", "n", "a", "m", "e", "\n", " ", " ", " ", " ", " ", " ", " ", " ", " ", " ", " ", " ", " ", " ", " ", " ">>
         ELSE <<"\n", " ", " ", " ", " ", " ", " ", " ", " ", " ", " ", " ", " ", " ", " ", " ", " ", "S", "E", "L", "E", "C", "T", " ", "t", "a", "b", "l", "e", "_", "n", "a", "m", "e", " ", "\n", " ", " ", " ", " ", " ", " ", " ", " ", " ", " ", " ", " ", " ", " ", " ", " ", "F", "R", "O", "M", " ", "i", "n", "f", "o", "r", "m", "a", "t", "i", "o", "n", "_", "s", "c", "h", "e", "m", "a", ".", "v", "i", "e", "w", "s", " ", "\n", " ", " ", " ", " ", " ", " ", " ", " ", " ", " ", " ", " ", " ", " ", " ", " ", "W", "H", "E", "R", "E", " ", "t", "a", "b", "l", "e", "_", "s", "c", "h", "e", "m", "a", " ", "=", " ", "'", "p", "u", "b", "l", "i", "c", "'", "\n", " ", " ", " ", " ", " ", " ", " ", " ", " ", " ", " ", " ", " ", " ", " ", " ", "O", "R", "D", "E", "R", " ", "B", "Y", " ", "t", "a", "b", "l", "e", "_", "n", "a", "m", "e", "\n", " ", " ", " ", " ", " ", " ", " ", " ", " ", " ", " ", " ", " ", " ", " ", " ">>
    ELSE IF what = "tables"
         THEN <<"\n", " ", " ", " ", " ", " ", " ", " ", " ", " ", " ", " ", " ", " ", " ", " ", " ", "S", "E", "L", "E", "C", "T", " ", "T", "A", "B", "L", "E", "_", "N", "A", "M", "E", ",", " ", "T", "A", "B", "L", "E", "_", "T", "Y", "P", "E", " ", "\n", " ", " ", " ", " ", " ", " ", " ", " ", " ", " ", " ", " ", " ", " ", " ", " ", "F", "R", "O", "M", " ", "I", "N", "F", "O", "R", "M", "A", "T", "I", "O", "N", "_", "S", "C", "H", "E", "M", "A", ".", "T", "A", "B", "L", "E", "S", " ", "\n", " ", " ", " ", " ", " ", " ", " ", " ", " ", " ", " ", " ", " ", " ", " ", " ", "W", "H", "E", "R", "E", " ", "T", "A", "B", "L", "E", "_", "C", "A", "T", "A", "L", "O", "G", " ", "=", " ", "'">> \o database_name \o <<"'", "\n", " ", " ", " ", " ", " ", " ", " ", " ", " ", " ", " ", " ", " ", " ", " ", " ", "O", "R", "D", "E", "R", " ", "B", "Y", " ", "T", "A", "B", "L", "E", "_", "N", "A", "M", "E", "\n", " ", " ", " ", " ", " ", " ", " ", " ", " ", " ", " ", " ", " ", " ", " ", " ">>
         ELSE <<"\n", " ", " ", " ", " ", " ", " ", " ", " ", " ", " ", " ", " ", " ", " ", " ", " ", "S", "E", "L", "E", "C", "T", " ", "T", "A", "B", "L", "E", "_", "N", "A", "M", "E", " ", "\n", " ", " ", " ", " ", " ", " ", " ", " ", " ", " ", " ", " ", " ", " ", " ", " ", "F", "R", "O", "M", " ", "I", "N", "F", "O", "R", "M", "A", "T", "I", "O", "N", "_", "S", "C", "H", "E", "M", "A", ".", "V", "I", "E", "W", "S", " ", "\n", " ", " ", " ", " ", " ", " ", " ", " ", " ", " ", " ", " ", " ", " ", " ", " ", "W", "H", "E", "R", "E", " ", "T", "A", "B", "L", "E", "_", "C", "A", "T", "A", "L", "O", "G", " ", "=", " ", "'">> \o database_name \o <<"'", "\n", " ", " ", " ", " ", " ", " ", " ", " ", " ", " ", " ", " ", " ", " ", " ", " ", "O", "R", "D", "E", "R", " ", "B", "Y", " ", "T", "A", "B", "L", "E", "_", "N", "A", "M", "E", "\n", " ", " ", " ", " ", " ", " ", " ", " ", " ", " ", " ", " ", " ", " ", " ", " ">>

\* [{"name": row[name], "type": ...} for row in results]
schema_objects(k, what, rows) ==
    [i \in 1..Len(rows) |->
        [name |-> rows[i][IF k = "postgresql" THEN "table_name" ELSE "TABLE_NAME"],
         type |-> IF what = "views" THEN "VIEW"
                  ELSE rows[i][IF k = "postgresql" THEN "table_type" ELSE "TABLE_TYPE"]]]

\* get_schema_info of the PostgreSQL and SQL Server providers after the
\* query for the views
schema_with_views(info, g) ==
    IF g.raised THEN Return(g.d, [error |-> g.value])
    ELSE Return(g.d, [views |-> schema_objects(g.d.kind, "views", g.value)] @@ info)

\* the same, from `if "views" in object_types` on
schema_views(d, p, info, o) ==
    IF ~wanted(d.kind, p, "views") THEN Return(d, info)
    ELSE schema_with_views(info, db_sql_get(d, schema_query(d.kind, "views", p.database_name), o))

\* the same, after the query for the tables
schema_with_tables(p, g, o) ==
    IF g.raised THEN Return(g.d, [error |-> g.value])
    ELSE schema_views(g.d, p,
                      [database |-> p.database_name,
                       tables |-> schema_objects(g.d.kind, "tables", g.value)],
                      o)

\* a sequence of {"name": ..., "type": type} entries
named(names, type) == [i \in 1..Len(names) |-> [name |-> names[i], type |-> type]]

\* <provider>.get_schema_info; the generic provider answers from fixed lists
get_schema_info(d, p, o) ==
    IF d.kind = "mock"
    THEN Return(d,
             [database |-> p.database_name]
             @@ (IF wanted(d.kind, p, "tables")
                 THEN [tables |-> named(<<"AI_Agents", "AI_Messages", "AI_Memories",
                                          "AI_Query_History", "Customers", "Orders">>,
                                        "BASE TABLE")]
                 ELSE <<>>)
             @@ (IF wanted(d.kind, p, "views")
                 THEN [views |-> named(<<"vw_ActiveAgents", "vw_RecentMessages">>, "VIEW")]
                 ELSE <<>>)
             @@ (IF wanted(d.kind, p, "procedures")
                 THEN [procedures |-> named(<<"sp_GetAgentStats", "sp_CleanupOldMemories">>,
                                            "PROCEDURE")]
                 ELSE <<>>))
    ELSE IF wanted(d.kind, p, "tables")
    THEN schema_with_tables(p, db_sql_get(d, schema_query(d.kind, "tables", p.database_name), o), o)
    ELSE schema_views(d, p, [database |-> p.database_name], o)

\* a column entry of table_descriptions
column(name, type, nullable) == [name |-> name, type |-> type, nullable |-> nullable]

\* table_descriptions[table_name]["columns"] of MCPToolProvider.describe_table,
\* or the generic structure for a table that has no description
table_columns(table_name) ==
    IF table_name = <<"A", "I", "_", "A", "g", "e", "n", "t", "s">>
    THEN <<column("Agent", "VARCHAR(15)", FALSE) @@ [primary_key |-> TRUE],
           column("Description", "VARCHAR(MAX)", TRUE),
           column("Model_API", "VARCHAR(30)", TRUE),
           column("Model", "VARCHAR(100)", TRUE),
           column("Model_API_KEY", "VARCHAR(500)", TRUE)>>
    ELSE IF table_name = <<"A", "I", "_", "M", "e", "s", "s", "a", "g", "e", "s">>
    THEN <<column("Message_ID", "INT IDENTITY(1,1)", FALSE) @@ [primary_key |-> TRUE],
           column("Posted", "DATETIME", FALSE) @@ [default |-> "GETDATE()"],
           column("User_From", "VARCHAR(15)", FALSE),
           column("User_To", "VARCHAR(15)", FALSE),
           column("Message", "VARCHAR(MAX)", TRUE),
           column("User_Read", "DATETIME", TRUE)>>
    ELSE IF table_name = <<"A", "I", "_", "M", "e", "m", "o", "r", "i", "e", "s">>
    THEN <<column("Memory_ID", "INT IDENTITY(1,1)", FALSE) @@ [primary_key |-> TRUE],
           column("Agent", "VARCHAR(15)", FALSE),
           column("First_Posted", "DATETIME", FALSE) @@ [default |-> "GETDATE()"],
           column("Times_Recalled", "INT", FALSE) @@ [default |-> "0"],
           column("Last_Recalled", "DATETIME", TRUE),
           column("Memory_Label", "VARCHAR(100)", FALSE),
           column("Memory", "VARCHAR(MAX)", TRUE),
           column("Related_To", "VARCHAR(200)", FALSE),
           column("Purge_After", "DATETIME", TRUE)>>
    ELSE <<column("ID", "INT", FALSE) @@ [primary_key |-> TRUE],
           column("Name", "VARCHAR(100)", TRUE),
           column("Created", "DATETIME", FALSE)>>

\* the key of a catalog column: lower case in PostgreSQL
catalog_key(k, lower, upper) == IF k = "postgresql" THEN lower ELSE upper

\* col_info of describe_table of the PostgreSQL and SQL Server providers, with
\* primary_key marked; a length of 0 is left out
col_info(k, row, primary_keys) ==
    [name |-> row[catalog_key(k, "column_name", "COLUMN_NAME")],
     type |-> row[catalog_key(k, "data_type", "DATA_TYPE")],
     nullable |-> row[catalog_key(k, "is_nullable", "IS_NULLABLE")] = "YES",
     default |-> row[catalog_key(k, "column_default", "COLUMN_DEFAULT")],
     primary_key |-> row[catalog_key(k, "column_name", "COLUMN_NAME")] \in primary_keys]
    @@ (IF row[catalog_key(k, "character_maximum_length", "CHARACTER_MAXIMUM_LENGTH")] # 0
        THEN [max_length |->
                 row[catalog_key(k, "character_maximum_length", "CHARACTER_MAXIMUM_LENGTH")]]
        ELSE <<>>)

\* describe_table once sample_table has returned
with_sample_data(info, s) == Return(s.d, [sample_data |-> s.value] @@ info)

\* describe_table from `if include_sample_data` on
described(d, p, info, o) ==
    IF ~p.include_sample_data THEN Return(d, info)
    ELSE with_sample_data(
             info,
             sample_table(d, [database_name |-> p.database_name, table_name |-> p.table_name,
                              row_count |-> 5, columns |-> <<>>], o))

\* describe_table of the PostgreSQL and SQL Server providers after the query
\* for the primary key
with_primary_keys(p, columns, g, o) ==
    IF g.raised THEN Return(g.d, [error |-> g.value])
    ELSE described(
             g.d, p,
             [table_name |-> p.table_name, database |-> p.database_name,
              columns |->
                 [i \in 1..Len(columns) |->
                     col_info(g.d.kind, columns[i],
                              {g.value[j][catalog_key(g.d.kind, "column_name", "COLUMN_NAME")] :
                                  j \in 1..Len(g.value)})]],
             o)

\* the statement of describe_table for the primary key
pk_query(k, p) ==
    IF k = "postgresql"
    THEN <<"\n", " ", " ", " ", " ", " ", " ", " ", " ", " ", " ", " ", " ", "S", "E", "L", "E", "C", "T", " ", "c", "o", "l", "u", "m", "n", "_", "n", "a", "m", "e", "\n", " ", " ", " ", " ", " ", " ", " ", " ", " ", " ", " ", " ", "F", "R", "O", "M", " ", "i", "n", "f", "o", "r", "m", "a", "t", "i", "o", "n", "_", "s", "c", "h", "e", "m", "a", ".", "t", "a", "b", "l", "e", "_", "c", "o", "n", "s", "t", "r", "a", "i", "n", "t", "s", " ", "t", "c", "\n", " ", " ", " ", " ", " ", " ", " ", " ", " ", " ", " ", " ", "J", "O", "I", "N", " ", "i", "n", "f", "o", "r", "m", "a", "t", "i", "o", "n", "_", "s", "c", "h", "e", "m", "a", ".", "k", "e", "y", "_", "c", "o", "l", "u", "m", "n", "_", "u", "s", "a", "g", "e", " ", "k", "c", "u", " ", "\n", " ", " ", " ", " ", " ", " ", " ", " ", " ", " ", " ", " ", " ", " ", "O", "N", " ", "t", "c", ".", "c", "o", "n", "s", "t", "r", "a", "i", "n", "t", "_", "n", "a", "m", "e", " ", "=", " ", "k", "c", "u", ".", "c", "o", "n", "s", "t", "r", "a", "i", "n", "t", "_", "n", "a", "m", "e", "\n", " ", " ", " ", " ", " ", " ", " ", " ", " ", " ", " ", " ", "W", "H", "E", "R", "E", " ", "t", "c", ".", "t", "a", "b", "l", "e", "_", "s", "c", "h", "e", "m", "a", " ", "=", " ", "'", "p", "u", "b", "l", "i", "c", "'", "\n", " ", " ", " ", " ", " ", " ", " ", " ", " ", " ", " ", " ", " ", " ", "A", "N", "D", " ", "t", "c", ".", "t", "a", "b", "l", "e", "_", "n", "a", "m", "e", " ", "=", " ", "'">> \o p.table_name \o <<"'", "\n", " ", " ", " ", " ", " ", " ", " ", " ", " ", " ", " ", " ", " ", " ", "A", "N", "D", " ", "t", "c", ".", "c", "o", "n", "s", "t", "r", "a", "i", "n", "t", "_", "t", "y", "p", "e", " ", "=", " ", "'", "P", "R", "I", "M", "A", "R", "Y", " ", "K", "E", "Y", "'", "\n", " ", " ", " ", " ", " ", " ", " ", " ", " ", " ", " ", " ">>
    ELSE <<"\n", " ", " ", " ", " ", " ", " ", " ", " ", " ", " ", " ", " ", "S", "E", "L", "E", "C", "T", " ", "C", "O", "L", "U", "M", "N", "_", "N", "A", "M", "E", "\n", " ", " ", " ", " ", " ", " ", " ", " ", " ", " ", " ", " ", "F", "R", "O", "M", " ", "I", "N", "F", "O", "R", "M", "A", "T", "I", "O", "N", "_", "S", "C", "H", "E", "M", "A", ".", "K", "E", "Y", "_", "C", "O", "L", "U", "M", "N", "_", "U", "S", "A", "G", "E", "\n", " ", " ", " ", " ", " ", " ", " ", " ", " ", " ", " ", " ", "W", "H", "E", "R", "E", " ", "T", "A", "B", "L", "E", "_", "C", "A", "T", "A", "L", "O", "G", " ", "=", " ", "'">> \o p.database_name \o <<"'", "\n", " ", " ", " ", " ", " ", " ", " ", " ", " ", " ", " ", " ", " ", " ", "A", "N", "D", " ", "T", "A", "B", "L", "E", "_", "N", "A", "M", "E", " ", "=", " ", "'">> \o p.table_name \o <<"'", "\n", " ", " ", " ", " ", " ", " ", " ", " ", " ", " ", " ", " ", " ", " ", "A", "N", "D", " ", "C", "O", "N", "S", "T", "R", "A", "I", "N", "T", "_", "N", "A", "M", "E", " ", "L", "I", "K", "E", " ", "'", "P", "K", "_", "%", "'", "\n", " ", " ", " ", " ", " ", " ", " ", " ", " ", " ", " ", " ">>

\* the same, after the query for the columns
with_columns(p, g, o) ==
    IF g.raised THEN Return(g.d, [error |-> g.value])
    ELSE with_primary_keys(p, g.value, db_sql_get(g.d, pk_query(g.d.kind, p), o), o)

\* <provider>.describe_table
describe_table(d, p, o) ==
    IF d.kind = "mock"
    THEN described(d, p,
                   [table_name |-> p.table_name, database |-> p.database_name,
                    columns |-> table_columns(p.table_name)],
                   o)
    ELSE IF d.kind = "postgresql"
    THEN with_columns(
             p,
             db_sql_get(d,
                 <<"\n", " ", " ", " ", " ", " ", " ", " ", " ", " ", " ", " ", " ", "S", "E", "L", "E", "C", "T", " ", "\n", " ", " ", " ", " ", " ", " ", " ", " ", " ", " ", " ", " ", " ", " ", " ", " ", "c", "o", "l", "u", "m", "n", "_", "n", "a", "m", "e", ",", "\n", " ", " ", " ", " ", " ", " ", " ", " ", " ", " ", " ", " ", " ", " ", " ", " ", "d", "a", "t", "a", "_", "t", "y", "p", "e", ",", "\n", " ", " ", " ", " ", " ", " ", " ", " ", " ", " ", " ", " ", " ", " ", " ", " ", "c", "h", "a", "r", "a", "c", "t", "e", "r", "_", "m", "a", "x", "i", "m", "u", "m", "_", "l", "e", "n", "g", "t", "h", ",", "\n", " ", " ", " ", " ", " ", " ", " ", " ", " ", " ", " ", " ", " ", " ", " ", " ", "i", "s", "_", "n", "u", "l", "l", "a", "b", "l", "e", ",", "\n", " ", " ", " ", " ", " ", " ", " ", " ", " ", " ", " ", " ", " ", " ", " ", " ", "c", "o", "l", "u", "m", "n", "_", "d", "e", "f", "a", "u", "l", "t", "\n", " ", " ", " ", " ", " ", " ", " ", " ", " ", " ", " ", " ", "F", "R", "O", "M", " ", "i", "n", "f", "o", "r", "m", "a", "t", "i", "o", "n", "_", "s", "c", "h", "e", "m", "a", ".", "c", "o", "l", "u", "m", "n", "s", " ", "\n", " ", " ", " ", " ", " ", " ", " ", " ", " ", " ", " ", " ", "W", "H", "E", "R", "E", " ", "t", "a", "b", "l", "e", "_", "s", "c", "h", "e", "m", "a", " ", "=", " ", "'", "p", "u", "b", "l", "i", "c", "'", " ", "\n", " ", " ", " ", " ", " ", " ", " ", " ", " ", " ", " ", " ", " ", " ", "A", "N", "D", " ", "t", "a", "b", "l", "e", "_", "n", "a", "m", "e", " ", "=", " ", "'">> \o p.table_name \o <<"'", "\n", " ", " ", " ", " ", " ", " ", " ", " ", " ", " ", " ", " ", "O", "R", "D", "E", "R", " ", "B", "Y", " ", "o", "r", "d", "i", "n", "a", "l", "_", "p", "o", "s", "i", "t", "i", "o", "n", "\n", " ", " ", " ", " ", " ", " ", " ", " ", " ", " ", " ", " ">>,
                 o),
             o)
    ELSE with_columns(
             p,
             db_sql_get(d,
                 <<"\n", " ", " ", " ", " ", " ", " ", " ", " ", " ", " ", " ", " ", "S", "E", "L", "E", "C", "T", " ", "\n", " ", " ", " ", " ", " ", " ", " ", " ", " ", " ", " ", " ", " ", " ", " ", " ", "C", "O", "L", "U", "M", "N", "_", "N", "A", "M", "E", ",", "\n", " ", " ", " ", " ", " ", " ", " ", " ", " ", " ", " ", " ", " ", " ", " ", " ", "D", "A", "T", "A", "_", "T", "Y", "P", "E", ",", "\n", " ", " ", " ", " ", " ", " ", " ", " ", " ", " ", " ", " ", " ", " ", " ", " ", "C", "H", "A", "R", "A", "C", "T", "E", "R", "_", "M", "A", "X", "I", "M", "U", "M", "_", "L", "E", "N", "G", "T", "H", ",", "\n", " ", " ", " ", " ", " ", " ", " ", " ", " ", " ", " ", " ", " ", " ", " ", " ", "I", "S", "_", "N", "U", "L", "L", "A", "B", "L", "E", ",", "\n", " ", " ", " ", " ", " ", " ", " ", " ", " ", " ", " ", " ", " ", " ", " ", " ", "C", "O", "L", "U", "M", "N", "_", "D", "E", "F", "A", "U", "L", "T", "\n", " ", " ", " ", " ", " ", " ", " ", " ", " ", " ", " ", " ", "F", "R", "O", "M", " ", "I", "N", "F", "O", "R", "M", "A", "T", "I", "O", "N", "_", "S", "C", "H", "E", "M", "A", ".", "C", "O", "L", "U", "M", "N", "S", " ", "\n", " ", " ", " ", " ", " ", " ", " ", " ", " ", " ", " ", " ", "W", "H", "E", "R", "E", " ", "T", "A", "B", "L", "E", "_", "C", "A", "T", "A", "L", "O", "G", " ", "=", " ", "'">> \o p.database_name \o <<"'", " ", "\n", " ", " ", " ", " ", " ", " ", " ", " ", " ", " ", " ", " ", " ", " ", "A", "N", "D", " ", "T", "A", "B", "L", "E", "_", "N", "A", "M", "E", " ", "=", " ", "'">> \o p.table_name \o <<"'", "\n", " ", " ", " ", " ", " ", " ", " ", " ", " ", " ", " ", " ", "O", "R", "D", "E", "R", " ", "B", "Y", " ", "O", "R", "D", "I", "N", "A", "L", "_", "P", "O", "S", "I", "T", "I", "O", "N", "\n", " ", " ", " ", " ", " ", " ", " ", " ", " ", " ", " ", " ">>,
                 o),
             o)

\* a foreign key of the mock relationship data
relationship(parent, child, child_column, constraint) ==
    [parent_table |-> parent, parent_column |-> "Agent", child_table |-> child,
     child_column |-> child_column, constraint_name |-> constraint]

\* the relationships that name the table, in order
RECURSIVE relationships_of(_, _)
relationships_of(relationships, table_name) ==
    IF relationships = <<>> THEN <<>>
    ELSE (IF table_name \in {Head(relationships).parent_table, Head(relationships).child_table}
          THEN <<Head(relationships)>> ELSE <<>>)
         \o relationships_of(Tail(relationships), table_name)

\* get_table_relationships of the PostgreSQL and SQL Server providers after
\* the query
relationships_read(g) ==
    IF g.raised THEN Return(g.d, <<[error |-> g.value]>>)
    ELSE Return(g.d,
             [i \in 1..Len(g.value) |->
                 [parent_table |-> g.value[i].parent_table,
                  parent_column |-> g.value[i].parent_column,
                  child_table |-> g.value[i].child_table,
                  child_column |-> g.value[i].child_column,
                  constraint_name |->
                     g.value[i][catalog_key(g.d.kind, "constraint_name", "CONSTRAINT_NAME")]]])

\* <provider>.get_table_relationships; `if table_name:` holds for a name
\* that is given and not empty
get_table_relationships(d, p, o) ==
    IF d.kind = "mock"
    THEN IF p.table_name \in {None, <<>>}
         THEN Return(d, <<relationship(<<"A", "I", "_", "A", "g", "e", "n", "t", "s">>, <<"A", "I", "_", "M", "e", "s", "s", "a", "g", "e", "s">>, "User_To", "FK_Messages_Agent"),
                          relationship(<<"A", "I", "_", "A", "g", "e", "n", "t", "s">>, <<"A", "I", "_", "M", "e", "m", "o", "r", "i", "e", "s">>, "Agent", "FK_Memories_Agent")>>)
         ELSE Return(d, relationships_of(
                            <<relationship(<<"A", "I", "_", "A", "g", "e", "n", "t", "s">>, <<"A", "I", "_", "M", "e", "s", "s", "a", "g", "e", "s">>, "User_To", "FK_Messages_Agent"),
                              relationship(<<"A", "I", "_", "A", "g", "e", "n", "t", "s">>, <<"A", "I", "_", "M", "e", "m", "o", "r", "i", "e", "s">>, "Agent", "FK_Memories_Agent")>>,
                            p.table_name))
    ELSE IF d.kind = "postgresql"
    THEN relationships_read(
             db_sql_get(d,
                 <<"\n", " ", " ", " ", " ", " ", " ", " ", " ", " ", " ", " ", " ", "S", "E", "L", "E", "C", "T", "\n", " ", " ", " ", " ", " ", " ", " ", " ", " ", " ", " ", " ", " ", " ", " ", " ", "t", "c", ".", "t", "a", "b", "l", "e", "_", "n", "a", "m", "e", " ", "a", "s", " ", "c", "h", "i", "l", "d", "_", "t", "a", "b", "l", "e", ",", "\n", " ", " ", " ", " ", " ", " ", " ", " ", " ", " ", " ", " ", " ", " ", " ", " ", "k", "c", "u", ".", "c", "o", "l", "u", "m", "n", "_", "n", "a", "m", "e", " ", "a", "s", " ", "c", "h", "i", "l", "d", "_", "c", "o", "l", "u", "m", "n", ",", "\n", " ", " ", " ", " ", " ", " ", " ", " ", " ", " ", " ", " ", " ", " ", " ", " ", "c", "c", "u", ".", "t", "a", "b", "l", "e", "_", "n", "a", "m", "e", " ", "a", "s", " ", "p", "a", "r", "e", "n", "t", "_", "t", "a", "b", "l", "e", ",", "\n", " ", " ", " ", " ", " ", " ", " ", " ", " ", " ", " ", " ", " ", " ", " ", " ", "c", "c", "u", ".", "c", "o", "l", "u", "m", "n", "_", "n", "a", "m", "e", " ", "a", "s", " ", "p", "a", "r", "e", "n", "t", "_", "c", "o", "l", "u", "m", "n", ",", "\n", " ", " ", " ", " ", " ", " ", " ", " ", " ", " ", " ", " ", " ", " ", " ", " ", "t", "c", ".", "c", "o", "n", "s", "t", "r", "a", "i", "n", "t", "_", "n", "a", "m", "e", "\n", " ", " ", " ", " ", " ", " ", " ", " ", " ", " ", " ", " ", "F", "R", "O", "M", " ", "i", "n", "f", "o", "r", "m", "a", "t", "i", "o", "n", "_", "s", "c", "h", "e", "m", "a", ".", "t", "a", "b", "l", "e", "_", "c", "o", "n", "s", "t", "r", "a", "i", "n", "t", "s", " ", "t", "c", "\n", " ", " ", " ", " ", " ", " ", " ", " ", " ", " ", " ", " ", "J", "O", "I", "N", " ", "i", "n", "f", "o", "r", "m", "a", "t", "i", "o", "n", "_", "s", "c", "h", "e", "m", "a", ".", "k", "e", "y", "_", "c", "o", "l", "u", "m", "n", "_", "u", "s", "a", "g", "e", " ", "k", "c", "u", " ", "\n", " ", " ", " ", " ", " ", " ", " ", " ", " ", " ", " ", " ", " ", " ", "O", "N", " ", "t", "c", ".", "c", "o", "n", "s", "t", "r", "a", "i", "n", "t", "_", "n", "a", "m", "e", " ", "=", " ", "k", "c", "u", ".", "c", "o", "n", "s", "t", "r", "a", "i", "n", "t", "_", "n", "a", "m", "e", "\n", " ", " ", " ", " ", " ", " ", " ", " ", " ", " ", " ", " ", "J", "O", "I", "N", " ", "i", "n", "f", "o", "r", "m", "a", "t", "i", "o", "n", "_", "s", "c", "h", "e", "m", "a", ".", "c", "o", "n", "s", "t", "r", "a", "i", "n", "t", "_", "c", "o", "l", "u", "m", "n", "_", "u", "s", "a", "g", "e", " ", "c", "c", "u", " ", "\n", " ", " ", " ", " ", " ", " ", " ", " ", " ", " ", " ", " ", " ", " ", "O", "N", " ", "c", "c", "u", ".", "c", "o", "n", "s", "t", "r", "a", "i", "n", "t", "_", "n", "a", "m", "e", " ", "=", " ", "t", "c", ".", "c", "o", "n", "s", "t", "r", "a", "i", "n", "t", "_", "n", "a", "m", "e", "\n", " ", " ", " ", " ", " ", " ", " ", " ", " ", " ", " ", " ", "W", "H", "E", "R", "E", " ", "t", "c", ".", "t", "a", "b", "l", "e", "_", "s", "c", "h", "e", "m", "a", " ", "=", " ", "'", "p", "u", "b", "l", "i", "c", "'", "\n", " ", " ", " ", " ", " ", " ", " ", " ", " ", " ", " ", " ", " ", " ", "A", "N", "D", " ", "t", "c", ".", "c", "o", "n", "s", "t", "r", "a", "i", "n", "t", "_", "t", "y", "p", "e", " ", "=", " ", "'", "F", "O", "R", "E", "I", "G", "N", " ", "K", "E", "Y", "'", "\n", " ", " ", " ", " ", " ", " ", " ", " ", " ", " ", " ", " ">>
                 \o (IF p.table_name \in {None, <<>>} THEN <<>>
                     ELSE <<" ", "A", "N", "D", " ", "(", "t", "c", ".", "t", "a", "b", "l", "e", "_", "n", "a", "m", "e", " ", "=", " ", "'">> \o p.table_name
                          \o <<"'", " ", "O", "R", " ", "c", "c", "u", ".", "t", "a", "b", "l", "e", "_", "n", "a", "m", "e", " ", "=", " ", "'">> \o p.table_name \o <<"'", ")">>),
                 o))
    ELSE relationships_read(
             db_sql_get(d,
                 <<"\n", " ", " ", " ", " ", " ", " ", " ", " ", " ", " ", " ", " ", "S", "E", "L", "E", "C", "T", "\n", " ", " ", " ", " ", " ", " ", " ", " ", " ", " ", " ", " ", " ", " ", " ", " ", "f", "k", ".", "T", "A", "B", "L", "E", "_", "N", "A", "M", "E", " ", "a", "s", " ", "c", "h", "i", "l", "d", "_", "t", "a", "b", "l", "e", ",", "\n", " ", " ", " ", " ", " ", " ", " ", " ", " ", " ", " ", " ", " ", " ", " ", " ", "f", "k", ".", "C", "O", "L", "U", "M", "N", "_", "N", "A", "M", "E", " ", "a", "s", " ", "c", "h", "i", "l", "d", "_", "c", "o", "l", "u", "m", "n", ",", "\n", " ", " ", " ", " ", " ", " ", " ", " ", " ", " ", " ", " ", " ", " ", " ", " ", "p", "k", ".", "T", "A", "B", "L", "E", "_", "N", "A", "M", "E", " ", "a", "s", " ", "p", "a", "r", "e", "n", "t", "_", "t", "a", "b", "l", "e", ",", "\n", " ", " ", " ", " ", " ", " ", " ", " ", " ", " ", " ", " ", " ", " ", " ", " ", "p", "k", ".", "C", "O", "L", "U", "M", "N", "_", "N", "A", "M", "E", " ", "a", "s", " ", "p", "a", "r", "e", "n", "t", "_", "c", "o", "l", "u", "m", "n", ",", "\n", " ", " ", " ", " ", " ", " ", " ", " ", " ", " ", " ", " ", " ", " ", " ", " ", "f", "k", ".", "C", "O", "N", "S", "T", "R", "A", "I", "N", "T", "_", "N", "A", "M", "E", "\n", " ", " ", " ", " ", " ", " ", " ", " ", " ", " ", " ", " ", "F", "R", "O", "M", " ", "I", "N", "F", "O", "R", "M", "A", "T", "I", "O", "N", "_", "S", "C", "H", "E", "M", "A", ".", "R", "E", "F", "E", "R", "E", "N", "T", "I", "A", "L", "_", "C", "O", "N", "S", "T", "R", "A", "I", "N", "T", "S", " ", "r", "c", "\n", " ", " ", " ", " ", " ", " ", " ", " ", " ", " ", " ", " ", "J", "O", "I", "N", " ", "I", "N", "F", "O", "R", "M", "A", "T", "I", "O", "N", "_", "S", "C", "H", "E", "M", "A", ".", "K", "E", "Y", "_", "C", "O", "L", "U", "M", "N", "_", "U", "S", "A", "G", "E", " ", "f", "k", " ", "\n", " ", " ", " ", " ", " ", " ", " ", " ", " ", " ", " ", " ", " ", " ", "O", "N", " ", "r", "c", ".", "C", "O", "N", "S", "T", "R", "A", "I", "N", "T", "_", "N", "A", "M", "E", " ", "=", " ", "f", "k", ".", "C", "O", "N", "S", "T", "R", "A", "I", "N", "T", "_", "N", "A", "M", "E", "\n", " ", " ", " ", " ", " ", " ", " ", " ", " ", " ", " ", " ", "J", "O", "I", "N", " ", "I", "N", "F", "O", "R", "M", "A", "T", "I", "O", "N", "_", "S", "C", "H", "E", "M", "A", ".", "K", "E", "Y", "_", "C", "O", "L", "U", "M", "N", "_", "U", "S", "A", "G", "E", " ", "p", "k", " ", "\n", " ", " ", " ", " ", " ", " ", " ", " ", " ", " ", " ", " ", " ", " ", "O", "N", " ", "r", "c", ".", "U", "N", "I", "Q", "U", "E", "_", "C", "O", "N", "S", "T", "R", "A", "I", "N", "T", "_", "N", "A", "M", "E", " ", "=", " ", "p", "k", ".", "C", "O", "N", "S", "T", "R", "A", "I", "N", "T", "_", "N", "A", "M", "E", "\n", " ", " ", " ", " ", " ", " ", " ", " ", " ", " ", " ", " ", "W", "H", "E", "R", "E", " ", "r", "c", ".", "C", "O", "N", "S", "T", "R", "A", "I", "N", "T", "_", "C", "A", "T", "A", "L", "O", "G", " ", "=", " ", "'">>
                 \o p.database_name \o <<"'", "\n", " ", " ", " ", " ", " ", " ", " ", " ", " ", " ", " ", " ">>
                 \o (IF p.table_name \in {None, <<>>} THEN <<>>
                     ELSE <<" ", "A", "N", "D", " ", "(", "f", "k", ".", "T", "A", "B", "L", "E", "_", "N", "A", "M", "E", " ", "=", " ", "'">> \o p.table_name
                          \o <<"'", " ", "O", "R", " ", "p", "k", ".", "T", "A", "B", "L", "E", "_", "N", "A", "M", "E", " ", "=", " ", "'">> \o p.table_name \o <<"'", ")">>),
                 o))

\* MCPToolProvider.get_table_dependencies: a fixed list
get_table_dependencies(d, p, o) ==
    Return(d, <<[dependent_object |-> "vw_ActiveAgents", dependency_type |-> "VIEW",
                 referenced_table |-> "AI_Agents"],
                [dependent_object |-> "sp_GetAgentStats", dependency_type |-> "PROCEDURE",
                 referenced_table |-> "AI_Messages"]>>)

\* get_column_stats of the PostgreSQL and SQL Server providers after the
\* query: the first row (or an empty dict) with the two names set
column_stats_read(p, g) ==
    IF g.raised THEN Return(g.d, [error |-> g.value])
    ELSE Return(g.d, [column_name |-> p.column_name, table_name |-> p.table_name]
                     @@ (IF g.value = <<>> THEN <<>> ELSE g.value[1]))

\* <provider>.get_column_stats; the generic provider answers fixed numbers
get_column_stats(d, p, o) ==
    IF d.kind = "mock"
    THEN Return(d, [column_name |-> p.column_name, table_name |-> p.table_name,
                    total_rows |-> 1000, null_count |-> 25, unique_values |-> 950,
                    most_common_value |-> "Sample Value", min_value |-> "A", max_value |-> "Z"])
    ELSE IF d.kind = "postgresql"
    THEN column_stats_read(
             p,
             db_sql_get(d,
                 <<"\n", " ", " ", " ", " ", " ", " ", " ", " ", " ", " ", " ", " ", "S", "E", "L", "E", "C", "T", " ", "\n", " ", " ", " ", " ", " ", " ", " ", " ", " ", " ", " ", " ", " ", " ", " ", " ", "C", "O", "U", "N", "T", "(", "*", ")", " ", "a", "s", " ", "t", "o", "t", "a", "l", "_", "r", "o", "w", "s", ",", "\n", " ", " ", " ", " ", " ", " ", " ", " ", " ", " ", " ", " ", " ", " ", " ", " ", "C", "O", "U", "N", "T", "(", "\"">> \o p.column_name \o <<"\"", ")", " ", "a", "s", " ", "n", "o", "n", "_", "n", "u", "l", "l", "_", "c", "o", "u", "n", "t", ",", "\n", " ", " ", " ", " ", " ", " ", " ", " ", " ", " ", " ", " ", " ", " ", " ", " ", "C", "O", "U", "N", "T", "(", "*", ")", " ", "-", " ", "C", "O", "U", "N", "T", "(", "\"">> \o p.column_name \o <<"\"", ")", " ", "a", "s", " ", "n", "u", "l", "l", "_", "c", "o", "u", "n", "t", ",", "\n", " ", " ", " ", " ", " ", " ", " ", " ", " ", " ", " ", " ", " ", " ", " ", " ", "C", "O", "U", "N", "T", "(", "D", "I", "S", "T", "I", "N", "C", "T", " ", "\"">> \o p.column_name \o <<"\"", ")", " ", "a", "s", " ", "u", "n", "i", "q", "u", "e", "_", "v", "a", "l", "u", "e", "s", "\n", " ", " ", " ", " ", " ", " ", " ", " ", " ", " ", " ", " ", "F", "R", "O", "M", " ", "\"">> \o p.table_name \o <<"\"", "\n", " ", " ", " ", " ", " ", " ", " ", " ", " ", " ", " ", " ">>,
                 o))
    ELSE column_stats_read(
             p,
             db_sql_get(d,
                 <<"\n", " ", " ", " ", " ", " ", " ", " ", " ", " ", " ", " ", " ", "S", "E", "L", "E", "C", "T", " ", "\n", " ", " ", " ", " ", " ", " ", " ", " ", " ", " ", " ", " ", " ", " ", " ", " ", "C", "O", "U", "N", "T", "(", "*", ")", " ", "a", "s", " ", "t", "o", "t", "a", "l", "_", "r", "o", "w", "s", ",", "\n", " ", " ", " ", " ", " ", " ", " ", " ", " ", " ", " ", " ", " ", " ", " ", " ", "C", "O", "U", "N", "T", "(", "[">> \o p.column_name \o <<"]", ")", " ", "a", "s", " ", "n", "o", "n", "_", "n", "u", "l", "l", "_", "c", "o", "u", "n", "t", ",", "\n", " ", " ", " ", " ", " ", " ", " ", " ", " ", " ", " ", " ", " ", " ", " ", " ", "C", "O", "U", "N", "T", "(", "*", ")", " ", "-", " ", "C", "O", "U", "N", "T", "(", "[">> \o p.column_name \o <<"]", ")", " ", "a", "s", " ", "n", "u", "l", "l", "_", "c", "o", "u", "n", "t", ",", "\n", " ", " ", " ", " ", " ", " ", " ", " ", " ", " ", " ", " ", " ", " ", " ", " ", "C", "O", "U", "N", "T", "(", "D", "I", "S", "T", "I", "N", "C", "T", " ", "[">> \o p.column_name \o <<"]", ")", " ", "a", "s", " ", "u", "n", "i", "q", "u", "e", "_", "v", "a", "l", "u", "e", "s", "\n", " ", " ", " ", " ", " ", " ", " ", " ", " ", " ", " ", " ", "F", "R", "O", "M", " ", "[">> \o p.table_name \o <<"]", "\n", " ", " ", " ", " ", " ", " ", " ", " ", " ", " ", " ", " ">>,
                 o))

---------------------------------------------------------------------------
(* SchemaCompatibility: field names across the database types.  A dict is  *)
(* the sequence of its <<key, value>> items in insertion order.            *)

\* d.get(key, default)
dict_get(d, key, default) ==
    IF \E i \in 1..Len(d) : d[i][1] = key
    THEN d[CHOOSE i \in 1..Len(d) : d[i][1] = key][2]
    ELSE default

\* d[key] = value
dict_set(d, key, value) ==
    IF \E i \in 1..Len(d) : d[i][1] = key
    THEN [i \in 1..Len(d) |-> IF d[i][1] = key THEN <<key, value>> ELSE d[i]]
    ELSE Append(d, <<key, value>>)

\* the dict with the keys and, in the same order, the values
dict_of(keys, values) == [i \in 1..Len(keys) |-> <<keys[i], values[i]>>]

\* the keys of field_mappings[database_type][table] other than model_api_key
logical_fields(table) ==
    IF table = "ai_agents"
    THEN <<<<"a", "g", "e", "n", "t">>, <<"d", "e", "s", "c", "r", "i", "p", "t", "i", "o", "n">>, <<"r", "o", "l", "e">>, <<"m", "o", "d", "e", "l", "_", "a", "p", "i">>, <<"m", "o", "d", "e", "l">>,
           <<"p", "o", "l", "l", "i", "n", "g", "_", "i", "n", "t", "e", "r", "v", "a", "l">>>>
    ELSE IF table = "ai_messages"
    THEN <<<<"m", "e", "s", "s", "a", "g", "e", "_", "i", "d">>, <<"p", "o", "s", "t", "e", "d">>, <<"u", "s", "e", "r", "_", "f", "r", "o", "m">>, <<"u", "s", "e", "r", "_", "t", "o">>, <<"m", "e", "s", "s", "a", "g", "e">>,
           <<"u", "s", "e", "r", "_", "r", "e", "a", "d">>>>
    ELSE IF table = "ai_memories"
    THEN <<<<"m", "e", "m", "o", "r", "y", "_", "i", "d">>, <<"a", "g", "e", "n", "t">>, <<"f", "i", "r", "s", "t", "_", "p", "o", "s", "t", "e", "d">>, <<"t", "i", "m", "e", "s", "_", "r", "e", "c", "a", "l", "l", "e", "d">>,
           <<"l", "a", "s", "t", "_", "r", "e", "c", "a", "l", "l", "e", "d">>, <<"m", "e", "m", "o", "r", "y", "_", "l", "a", "b", "e", "l">>, <<"m", "e", "m", "o", "r", "y">>, <<"r", "e", "l", "a", "t", "e", "d", "_", "t", "o">>, <<"p", "u", "r", "g", "e", "_", "a", "f", "t", "e", "r">>>>
    ELSE IF table = "ai_scripts"
    THEN <<<<"l", "a", "n", "g", "u", "a", "g", "e">>, <<"f", "o", "l", "d", "e", "r">>, <<"f", "i", "l", "e", "n", "a", "m", "e">>, <<"s", "u", "m", "m", "a", "r", "y">>, <<"s", "c", "r", "i", "p", "t">>>>
    ELSE <<>>

\* their values in the mappings of mock and sqlserver
pascal_fields(table) ==
    IF table = "ai_agents"
    THEN <<<<"A", "g", "e", "n", "t">>, <<"D", "e", "s", "c", "r", "i", "p", "t", "i", "o", "n">>, <<"R", "o", "l", "e">>, <<"M", "o", "d", "e", "l", "_", "A", "P", "I">>, <<"M", "o", "d", "e", "l">>,
           <<"P", "o", "l", "l", "i", "n", "g", "_", "I", "n", "t", "e", "r", "v", "a", "l">>>>
    ELSE IF table = "ai_messages"
    THEN <<<<"M", "e", "s", "s", "a", "g", "e", "_", "I", "D">>, <<"P", "o", "s", "t", "e", "d">>, <<"U", "s", "e", "r", "_", "F", "r", "o", "m">>, <<"U", "s", "e", "r", "_", "T", "o">>, <<"M", "e", "s", "s", "a", "g", "e">>,
           <<"U", "s", "e", "r", "_", "R", "e", "a", "d">>>>
    ELSE IF table = "ai_memories"
    THEN <<<<"M", "e", "m", "o", "r", "y", "_", "I", "D">>, <<"A", "g", "e", "n", "t">>, <<"F", "i", "r", "s", "t", "_", "P", "o", "s", "t", "e", "d">>, <<"T", "i", "m", "e", "s", "_", "R", "e", "c", "a", "l", "l", "e", "d">>,
           <<"L", "a", "s", "t", "_", "R", "e", "c", "a", "l", "l", "e", "d">>, <<"M", "e", "m", "o", "r", "y", "_", "L", "a", "b", "e", "l">>, <<"M", "e", "m", "o", "r", "y">>, <<"R", "e", "l", "a", "t", "e", "d", "_", "T", "o">>, <<"P", "u", "r", "g", "e", "_", "A", "f", "t", "e", "r">>>>
    ELSE IF table = "ai_scripts"
    THEN <<<<"L", "a", "n", "g", "u", "a", "g", "e">>, <<"F", "o", "l", "d", "e", "r">>, <<"F", "i", "l", "e", "N", "a", "m", "e">>, <<"S", "u", "m", "m", "a", "r", "y">>, <<"S", "c", "r", "i", "p", "t">>>>
    ELSE <<>>

\* self.field_mappings[database_type].get(table, {})
field_mappings(database_type, table) ==
    IF database_type = "postgresql" THEN dict_of(logical_fields(table), logical_fields(table))
    ELSE IF database_type = "mock" /\ table = "ai_agents"
    THEN Append(dict_of(logical_fields(table), pascal_fields(table)),
                <<<<"m", "o", "d", "e", "l", "_", "a", "p", "i", "_", "k", "e", "y">>, <<"M", "o", "d", "e", "l", "_", "A", "P", "I", "_", "K", "E", "Y">>>>)
    ELSE dict_of(logical_fields(table), pascal_fields(table))

RECURSIVE reverse_mapping(_, _)
\* {v: k for k, v in table_mapping.items()}, added to reversed
reverse_mapping(reversed, items) ==
    IF items = <<>> THEN reversed
    ELSE reverse_mapping(dict_set(reversed, Head(items)[2], Head(items)[1]), Tail(items))

RECURSIVE to_standard(_, _, _)
\* the loop of convert_row_to_standard over the items of the row
to_standard(converted, reversed, items) ==
    IF items = <<>> THEN converted
    ELSE to_standard(dict_set(converted,
                              dict_get(reversed, Head(items)[1], str_lower(Head(items)[1])),
                              Head(items)[2]),
                     reversed, Tail(items))

\* SchemaCompatibility.convert_row_to_standard
convert_row_to_standard(database_type, table, row) ==
    IF row = <<>> THEN row
    ELSE to_standard(<<>>, reverse_mapping(<<>>, field_mappings(database_type, table)), row)

RECURSIVE from_standard(_, _, _)
\* the loop of convert_row_from_standard over the items of the row
from_standard(converted, table_mapping, items) ==
    IF items = <<>> THEN converted
    ELSE from_standard(dict_set(converted,
                                dict_get(table_mapping, Head(items)[1], Head(items)[1]),
                                Head(items)[2]),
                       table_mapping, Tail(items))

\* a conversion that leaves the standard names in place
convert_row_from_standard_unmapped(database_type, table, row) == row

\* SchemaCompatibility.convert_row_from_standard
convert_row_from_standard(database_type, table, row) ==
    IF row = <<>> THEN row
    ELSE from_standard(<<>>, field_mappings(database_type, table), row)

---------------------------------------------------------------------------
(* sql_escape of the three backends, for a value of any type: a value is   *)
(* [type |-> "NoneType"], [type |-> "str", v |-> text] or                  *)
(* [type |-> "int", n |-> n].                                              *)

\* str(data)
py_str(data) == IF data.type = "int" THEN str_of_int(data.n) ELSE data.v

\* MockDataLink.sql_escape
MockDataLink_sql_escape(data, quote) ==
    IF data.type = "NoneType" THEN <<"N", "U", "L", "L">>
    ELSE IF quote THEN <<"'">> \o str_replace(py_str(data), <<"'">>, <<"'", "'">>) \o <<"'">>
    ELSE str_replace(py_str(data), <<"'">>, <<"'", "'">>)

\* an escape that puts a backslash before a single quote
PostgreSQLDataLink_sql_escape_backslash(data, quote) ==
    IF data.type = "NoneType" THEN <<"N", "U", "L", "L">>
    ELSE IF quote THEN <<"'">> \o str_replace(py_str(data), <<"'">>, <<"\\", "'">>) \o <<"'">>
    ELSE str_replace(py_str(data), <<"'">>, <<"\\", "'">>)

\* PostgreSQLDataLink.sql_escape
PostgreSQLDataLink_sql_escape(data, quote) ==
    IF data.type = "NoneType" THEN <<"N", "U", "L", "L">>
    ELSE IF quote THEN <<"'">> \o str_replace(py_str(data), <<"'">>, <<"'", "'">>) \o <<"'">>
    ELSE str_replace(py_str(data), <<"'">>, <<"'", "'">>)

\* DataLink.sql_escape
DataLink_sql_escape(data, quote) ==
    IF data.type = "NoneType" THEN <<"N", "U", "L", "L">>
    ELSE IF quote THEN <<"'">> \o str_replace(py_str(data), <<"'">>, <<"'", "'">>) \o <<"'">>
    ELSE str_replace(py_str(data), <<"'">>, <<"'", "'">>)

---------------------------------------------------------------------------
(* execute_tool: the dispatch entry point.                                 *)

\* an envelope for an unknown name that lists no tools
UnknownToolEnvelopeBare(k, name) ==
    [success |-> FALSE, error |-> "Unknown tool: " \o name, available_tools |-> <<>>]

\* the envelope for a name that is not in the registry
UnknownToolEnvelope(k, name) ==
    [success |-> FALSE, error |-> "Unknown tool: " \o name, available_tools |-> tools(k)]

\* an envelope for a caught exception that keeps the message under data
ErrorEnvelopeAsData(message) == [success |-> FALSE, data |-> [error |-> message]]

\* the envelope for an exception caught by execute_tool
ErrorEnvelope(message) == [success |-> FALSE, error |-> message]

\* the envelope for a tool that returned
SuccessEnvelope(value) == [success |-> TRUE, data |-> value]

\* tool_func(**parameters) for a registered tool and bound parameters
tool_func(d, name, p, o) ==
    CASE name = "execute_query" ->
            (IF d.kind = "mock" THEN execute_query_generic(d, p, o)
             ELSE IF d.kind = "postgresql" THEN execute_query_pg(d, p, o)
             ELSE execute_query_sqlserver(d, p, o))
      [] name = "validate_sql" -> validate_sql(d, p, o)
      [] name = "check_permissions" ->
            (IF p.operation = None
             THEN Raise(d, "'NoneType' object has no attribute 'upper'")
             ELSE check_permissions(d, p, o))
      [] name = "sample_table" -> sample_table(d, p, o)
      [] name = "store_memory" ->
            (IF d.kind = "mock" THEN store_memory_generic(d, p, o)
             ELSE IF d.kind = "postgresql" THEN store_memory_pg(d, p, o)
             ELSE store_memory_sqlserver(d, p, o))
      [] name = "retrieve_memories" ->
            (IF d.kind = "mock" THEN retrieve_memories_generic(d, p, o)
             ELSE IF d.kind = "postgresql" THEN retrieve_memories_pg(d, p, o)
             ELSE retrieve_memories_sqlserver(d, p, o))
      [] name = "search_memories" -> search_memories(d, p, o)
      [] name = "update_memory" -> update_memory(d, p, o)
      [] name = "delete_memory" -> delete_memory(d, p, o)
      [] name = "get_memory_stats" -> get_memory_stats(d, p, o)
      [] name = "connect_to_database" -> connect_to_database(d, p, o)
      [] name = "list_databases" -> list_databases(d, p, o)
      [] name = "get_schema_info" -> get_schema_info(d, p, o)
      [] name = "describe_table" -> describe_table(d, p, o)
      [] name = "get_table_relationships" -> get_table_relationships(d, p, o)
      [] name = "get_table_dependencies" -> get_table_dependencies(d, p, o)
      [] name = "get_column_stats" -> get_column_stats(d, p, o)

\* the try block of execute_tool: the tool's return value becomes the data of
\* a success envelope, an exception that left the tool an error envelope
envelope(r) ==
    IF r.raised THEN [d |-> r.d, result |-> ErrorEnvelope(r.value)]
    ELSE [d |-> r.d, result |-> SuccessEnvelope(r.value)]

\* <provider>.execute_tool: [d |-> the backend afterwards, result |-> the envelope];
\* d.calls lists the backend methods invoked during this call
execute_tool(d0, name, params, o) ==
    IF ~Registered(d0.kind, name)
    THEN [d |-> [d0 EXCEPT !.calls = <<>>], result |-> UnknownToolEnvelope(d0.kind, name)]
    ELSE IF BindError(name, params)
    THEN [d |-> [d0 EXCEPT !.calls = <<>>],
          result |-> ErrorEnvelope("TypeError: missing or unexpected keyword argument")]
    ELSE envelope(tool_func([d0 EXCEPT !.calls = <<>>], name, Bind(name, params), o))

---------------------------------------------------------------------------
(* Inputs.                                                                 *)

SelectAgentsLimit3 == <<"S", "E", "L", "E", "C", "T", " ", "*", " ", "F", "R", "O", "M", " ", "A", "I", "_", "A", "g", "e", "n", "t", "s", " ", "L", "I", "M", "I", "T", " ", "3">>
SelectMixedCase == <<"S", "e", "L", "e", "C", "t", " ", "*", " ", "F", "R", "O", "M", " ", "A", "I", "_", "A", "g", "e", "n", "t", "s">>
DropTable == <<"D", "R", "O", "P", " ", "T", "A", "B", "L", "E", " ", "a", "i", "_", "a", "g", "e", "n", "t", "s">>
SelectLower == <<"S", "E", "L", "E", "C", "T", " ", "*", " ", "F", "R", "O", "M", " ", "a", "i", "_", "a", "g", "e", "n", "t", "s">>

\* statements given to execute_query
SqlQueries ==
    {SelectAgentsLimit3, SelectMixedCase, <<" ", " ", "u", "p", "d", "a", "t", "e", " ", "x">>, DropTable,
     <<"S", "E", "L", "E", "C", "T", " ", "*", " ", "F", "R", "O", "M", " ", "A", "I", "_", "A", "g", "e", "n", "t", "s">>,
     <<"S", "E", "L", "E", "C", "T", " ", "A", "g", "e", "n", "t", " ", "A", "S", " ", "l", "i", "m", "i", "t", "_", "n", "a", "m", "e", " ", "F", "R", "O", "M", " ", "A", "I", "_", "A", "g", "e", "n", "t", "s">>,
     <<"S", "E", "L", "E", "C", "T", " ", "*", " ", "F", "R", "O", "M", " ", "C", "u", "s", "t", "o", "m", "e", "r", "s">>,
     <<"S", "E", "L", "E", "C", "T", " ", "*", " ", "F", "R", "O", "M", " ", "A", "I", "_", "A", "g", "e", "n", "t", "s", " ", "W", "H", "E", "R", "E", " ", "a", "g", "e", "n", "t", " ", "=">>,
     <<"S", "E", "L", "E", "C", "T", " ", "*", " ", "F", "R", "O", "M", " ", "a", "i", "_", "a", "g", "e", "n", "t", "s", ";">>,
     <<"S", "E", "L", "E", "C", "T", " ", "T", "O", "P", " ", "2", " ", "*", " ", "F", "R", "O", "M", " ", "A", "I", "_", "A", "g", "e", "n", "t", "s">>,
     <<"S", "E", "L", "E", "C", "T", "\n", "*", " ", "F", "R", "O", "M", " ", "A", "I", "_", "A", "g", "e", "n", "t", "s">>,
     <<"S", "E", "L", "E", "C", "T", " ", "C", "O", "U", "N", "T", "(", "*", ")", " ", "F", "R", "O", "M", " ", "C", "u", "s", "t", "o", "m", "e", "r", "s">>,
     <<"U", "P", "D", "A", "T", "E", " ", "x", " ", "S", "E", "T", " ", "a", " ", "=", " ", "(", "S", "E", "L", "E", "C", "T", " ", "1", ")">>,
     <<>>}

\* statements given to validate_sql
SqlTexts ==
    {DropTable, SelectLower, <<" ", " ", "u", "p", "d", "a", "t", "e", " ", "x">>, SelectMixedCase,
     <<"S", "E", "L", "E", "C", "T", " ", "u", "p", "d", "a", "t", "e", "_", "a", "t", " ", "F", "R", "O", "M", " ", "a", "i", "_", "a", "g", "e", "n", "t", "s">>,
     <<"S", "E", "L", "E", "C", "T", " ", "1", ";", " ", "D", "R", "O", "P", " ", "T", "A", "B", "L", "E", " ", "x">>,
     <<"S", "E", "L", "E", "C", "T", " ", "C", "O", "U", "N", "T", "(", "*", " ", "F", "R", "O", "M", " ", "A", "I", "_", "A", "g", "e", "n", "t", "s">>,
     <<"C", "R", "E", "A", "T", "E", " ", "T", "A", "B", "L", "E", " ", "t", " ", "(", "a", " ", "I", "N", "T", ")">>,
     <<"S", "E", "L", "E", "C", "T", " ", "1", ";", "	", "d", "e", "l", "e", "t", "e", " ", "f", "r", "o", "m", " ", "x">>,
     <<>>}

\* values of row_limit, row_count and limit
RowLimits == 0..MaxRowLimit

\* agents that store and retrieve memories: one without seed memories, one with
AgentNames == {<<"D", "a", "t", "a", "A", "n", "a", "l", "y", "s", "t">>, LoanAnalyst}

\* values of related_to_tags: several words, one word, none
TagStrings == {<<"s", "a", "l", "e", "s", " ", "a", "n", "a", "l", "y", "s", "i", "s", " ", "q", "u", "a", "r", "t", "e", "r", "l", "y">>, <<"s", "a", "l", "e", "s">>, <<>>}

\* values of memory_id: two seed memories of the mock backend, and none
MemoryIds == {1, 5, 9}

\* a row a database server returns, by its key column
NetRow(i) == [memory_id |-> i, Memory_ID |-> i]

\* the oracle of a call that meets no fault
NoFault == [fail_at |-> 0, fault |-> "statement", rows |-> <<>>, rnd |-> 0, ms |-> 0]

\* what a tool call that makes up to n backend calls can meet outside the
\* program; a value that cannot influence the call is fixed
Oracles(k, n, times) ==
    IF k = "mock"
    THEN [fail_at : {0}, fault : {"statement"}, rows : {<<>>}, rnd : {0, 100}, ms : times]
    ELSE {o \in [fail_at : 0..n, fault : {"connect", "statement"},
                 rows : {<<>>, <<NetRow(1), NetRow(2), NetRow(3)>>},
                 rnd : {0}, ms : times] :
            /\ o.fail_at = 0 => o.fault = "statement"
            /\ o.fail_at = 1 => o.rows = <<>>
            /\ o.fail_at > 0 => o.ms = 0}

\* the row a database server answers to the queries of the connection,
\* schema and statistics tools: it holds the columns those queries select
AnswerRow ==
    [k \in {"name", "datname", "current_database", "current_user", "table_name",
            "TABLE_NAME", "column_name", "COLUMN_NAME", "parent_table", "child_table",
            "related_to", "Related_To"} |-> <<"s", "a", "l", "e", "s">>]
    @@ [k \in {"table_type", "TABLE_TYPE", "data_type", "DATA_TYPE", "is_nullable",
               "IS_NULLABLE", "parent_column", "child_column", "constraint_name",
               "CONSTRAINT_NAME"} |-> "YES"]
    @@ [k \in {"column_default", "COLUMN_DEFAULT"} |-> None]
    @@ [k \in {"character_maximum_length", "CHARACTER_MAXIMUM_LENGTH", "total_rows",
               "non_null_count", "null_count", "unique_values", "total_memories",
               "avg_recalls", "max_recalls", "unused_memories"} |-> 1]

\* what a call of one of those tools, which makes up to n backend calls, can
\* meet outside the program
AnswerOracles(k, n) ==
    IF k = "mock" THEN Oracles(k, n, {0})
    ELSE {o \in [fail_at : 0..n, fault : {"connect", "statement"},
                 rows : {<<>>, <<AnswerRow>>}, rnd : {0}, ms : {0}] :
            o.fail_at = 0 => o.fault = "statement"}

\* what the call of a tool can meet outside the program: a tool that makes no
\* backend call meets nothing
ToolOracles(k, name, params) ==
    IF ~Registered(k, name) \/ BindError(name, params) THEN {NoFault}
    ELSE IF name = "execute_query" THEN Oracles(k, 1, 0..MaxExecMs)
    ELSE IF name \in {"sample_table", "search_memories", "update_memory", "delete_memory"}
    THEN Oracles(k, 1, {0})
    ELSE IF name \in {"store_memory", "retrieve_memories"} THEN Oracles(k, 2, {0})
    ELSE IF name \in {"get_table_relationships", "get_column_stats"} THEN AnswerOracles(k, 1)
    ELSE IF name \in {"connect_to_database", "list_databases", "get_schema_info",
                      "get_memory_stats"}
    THEN AnswerOracles(k, 2)
    ELSE IF name = "describe_table" THEN AnswerOracles(k, 3)
    ELSE {NoFault}

---------------------------------------------------------------------------
(* The state machine: a caller (an API endpoint of main.py, or an agent)   *)
(* makes a request, execute_tool handles it, the caller takes the envelope.*)

\* the backend object as the operators above see it
backend ==
    [kind |-> kind, mock_tables |-> mock_tables, log_entries |-> log_entries,
     wasError |-> wasError, calls |-> calls]

Init ==
    /\ kind \in {"mock", "postgresql", "sqlserver"}
    /\ mock_tables = IF kind = "mock" THEN _init_mock_data
                     ELSE [AI_Agents |-> <<>>, AI_Messages |-> <<>>,
                           AI_Memories |-> <<>>, AI_Query_History |-> <<>>]
    /\ log_entries = <<>>
    /\ wasError = FALSE
    /\ pc = "idle"
    /\ tool_name = ""
    /\ parameters = <<>>
    /\ result = <<>>
    /\ calls = <<>>

\* no call is in progress
Idle == pc = "idle"

\* execute_tool has been called and has not returned yet
Pending == pc = "called"

\* execute_tool has returned: the caller holds the envelope
Returned == pc = "returned"

\* a caller calls execute_tool(name, params)
Request(name, params) ==
    /\ pc' = "called"
    /\ tool_name' = name
    /\ parameters' = params
    /\ UNCHANGED <<kind, mock_tables, log_entries, wasError, result, calls>>

ExecuteQuery ==
    /\ Idle
    /\ \E sql \in SqlQueries :
           \/ Request("execute_query", [database_name |-> "TriAI_Main", sql_query |-> sql])
           \/ \E n \in RowLimits :
                 Request("execute_query",
                         [database_name |-> "TriAI_Main", sql_query |-> sql, row_limit |-> n])

ValidateSql ==
    /\ Idle
    /\ \E sql \in SqlTexts :
           Request("validate_sql", [database_name |-> "TriAI_Main", sql_query |-> sql])

CheckPermissions ==
    /\ Idle
    /\ \E op \in {<<"S", "E", "L", "E", "C", "T">>, <<"s", "e", "l", "e", "c", "t">>, <<"D", "E", "L", "E", "T", "E">>, None} :
           Request("check_permissions",
                   [database_name |-> "TriAI_Main", object_name |-> "AI_Agents", operation |-> op])

SampleTable ==
    /\ Idle
    /\ \E t \in {<<"A", "I", "_", "A", "g", "e", "n", "t", "s">>, <<"C", "u", "s", "t", "o", "m", "e", "r", "s">>} :
           \/ Request("sample_table", [database_name |-> "TriAI_Main", table_name |-> t])
           \/ \E n \in RowLimits :
                 Request("sample_table",
                         [database_name |-> "TriAI_Main", table_name |-> t, row_count |-> n,
                          columns |-> << <<"A", "g", "e", "n", "t">> >>])

StoreMemory ==
    /\ Idle
    /\ \E a \in AgentNames, t \in TagStrings :
           Request("store_memory",
                   [agent_name |-> a, memory_label |-> <<"Q", "4", " ", "s", "a", "l", "e", "s">>,
                    memory_content |-> <<"S", "a", "l", "e", "s", " ", "r", "o", "s", "e", " ", "4", "%", ";", " ", "i", "t", "'", "s", " ", "O", "'", "B", "r", "i", "e", "n", "'", "s", " ", "r", "e", "g", "i", "o", "n">>, related_to_tags |-> t])

RetrieveMemories ==
    /\ Idle
    /\ \E a \in AgentNames, t \in TagStrings :
           \/ Request("retrieve_memories", [agent_name |-> a, related_to_tags |-> t])
           \/ \E n \in RowLimits :
                 Request("retrieve_memories", [agent_name |-> a, related_to_tags |-> t, limit |-> n])

SearchMemories ==
    /\ Idle
    /\ \E a \in AgentNames, t \in {<<"m", "o", "r", "t", "g", "a", "g", "e">>, <<"O", "'", "B", "r", "i", "e", "n">>} :
           \/ Request("search_memories", [agent_name |-> a, search_text |-> t])
           \/ Request("search_memories", [agent_name |-> a, search_text |-> t, limit |-> 1])

UpdateMemory ==
    /\ Idle
    /\ \E id \in MemoryIds :
           \/ Request("update_memory", [memory_id |-> id, memory_content |-> <<"i", "t", "'", "s", " ", "r", "e", "v", "i", "s", "e", "d">>])
           \/ \E t \in {<<"s", "a", "l", "e", "s">>, <<>>} :
                 Request("update_memory", [memory_id |-> id, memory_content |-> <<"i", "t", "'", "s", " ", "r", "e", "v", "i", "s", "e", "d">>,
                                           related_to_tags |-> t])

DeleteMemory ==
    /\ Idle
    /\ \E id \in MemoryIds : Request("delete_memory", [memory_id |-> id])

GetMemoryStats ==
    /\ Idle
    /\ \E a \in AgentNames : Request("get_memory_stats", [agent_name |-> a])

ConnectToDatabase ==
    /\ Idle
    /\ Request("connect_to_database",
               [server_instance |-> "localhost", database_name |-> <<"T", "r", "i", "A", "I", "_", "M", "a", "i", "n">>])

ListDatabases ==
    /\ Idle
    /\ Request("list_databases", [server_instance |-> "localhost"])

GetSchemaInfo ==
    /\ Idle
    /\ \/ Request("get_schema_info", [database_name |-> <<"T", "r", "i", "A", "I", "_", "M", "a", "i", "n">>])
       \/ Request("get_schema_info",
                  [database_name |-> <<"T", "r", "i", "A", "I", "_", "M", "a", "i", "n">>, object_types |-> <<"tables">>])

DescribeTable ==
    /\ Idle
    /\ \E t \in {<<"A", "I", "_", "A", "g", "e", "n", "t", "s">>, <<"C", "u", "s", "t", "o", "m", "e", "r", "s">>} :
           \/ Request("describe_table", [database_name |-> <<"T", "r", "i", "A", "I", "_", "M", "a", "i", "n">>, table_name |-> t])
           \/ Request("describe_table", [database_name |-> <<"T", "r", "i", "A", "I", "_", "M", "a", "i", "n">>, table_name |-> t,
                                         include_sample_data |-> TRUE])

GetTableRelationships ==
    /\ Idle
    /\ \/ Request("get_table_relationships", [database_name |-> <<"T", "r", "i", "A", "I", "_", "M", "a", "i", "n">>])
       \/ Request("get_table_relationships",
                  [database_name |-> <<"T", "r", "i", "A", "I", "_", "M", "a", "i", "n">>, table_name |-> <<"A", "I", "_", "M", "e", "s", "s", "a", "g", "e", "s">>])

\* registered by the generic provider only
GetTableDependencies ==
    /\ Idle
    /\ Request("get_table_dependencies", [database_name |-> <<"T", "r", "i", "A", "I", "_", "M", "a", "i", "n">>])

GetColumnStats ==
    /\ Idle
    /\ Request("get_column_stats", [database_name |-> <<"T", "r", "i", "A", "I", "_", "M", "a", "i", "n">>,
                                   table_name |-> <<"A", "I", "_", "A", "g", "e", "n", "t", "s">>, column_name |-> <<"A", "g", "e", "n", "t">>])

\* a name that is not registered
UnknownTool ==
    /\ Idle
    /\ \E name \in {"drop_table", "execute_sql", "Execute_Query"} :
           \/ Request(name, <<>>)
           \/ Request(name, [database_name |-> "TriAI_Main", sql_query |-> DropTable])

\* a registered tool (one of those whose bodies are modelled) called with a
\* parameter missing or with one it does not take
BadParameters ==
    /\ Idle
    /\ \E name \in {"execute_query", "validate_sql", "check_permissions", "sample_table",
                      "store_memory", "retrieve_memories"} :
           \/ Request(name, <<>>)
           \/ Request(name, [database_name |-> "TriAI_Main", sql_query |-> DropTable, force |-> TRUE])

\* the state after execute_tool has returned r
Returns(r) ==
    /\ pc' = "returned"
    /\ result' = r.result
    /\ mock_tables' = r.d.mock_tables
    /\ log_entries' = r.d.log_entries
    /\ wasError' = r.d.wasError
    /\ calls' = r.d.calls
    /\ UNCHANGED <<kind, tool_name, parameters>>

\* execute_tool runs from its call to its return
ExecuteTool ==
    /\ Pending
    /\ \E o \in ToolOracles(kind, tool_name, parameters) :
          Returns(execute_tool(backend, tool_name, parameters, o))

\* the caller takes the envelope; the next call can begin
Receive ==
    /\ Returned
    /\ pc' = "idle"
    /\ tool_name' = ""
    /\ parameters' = <<>>
    /\ result' = <<>>
    /\ calls' = <<>>
    /\ UNCHANGED <<kind, mock_tables, log_entries, wasError>>

Next ==
    \/ ExecuteQuery
    \/ ValidateSql
    \/ CheckPermissions
    \/ SampleTable
    \/ StoreMemory
    \/ RetrieveMemories
    \/ SearchMemories
    \/ UpdateMemory
    \/ DeleteMemory
    \/ GetMemoryStats
    \/ ConnectToDatabase
    \/ ListDatabases
    \/ GetSchemaInfo
    \/ DescribeTable
    \/ GetTableRelationships
    \/ GetTableDependencies
    \/ GetColumnStats
    \/ UnknownTool
    \/ BadParameters
    \/ ExecuteTool
    \/ Receive

Spec == Init /\ [][Next]_vars

---------------------------------------------------------------------------
(* sql_upsert of the three backends, with run=True.  A row is a dict, here *)
(* a record; its keys are listed in the order of UpsertColumns, the order  *)
(* in which the callers of this model build their rows.  The rows hold a   *)
(* number in the column Message_ID and text or None in the other columns.  *)

UpsertColumns == <<"Message_ID", "User_To", "user_from", "user_to", "message">>

\* the name of a column as text
column_text(col) ==
    CASE col = "Message_ID" -> <<"M", "e", "s", "s", "a", "g", "e", "_", "I", "D">>
      [] col = "User_To" -> <<"U", "s", "e", "r", "_", "T", "o">>
      [] col = "user_from" -> <<"u", "s", "e", "r", "_", "f", "r", "o", "m">>
      [] col = "user_to" -> <<"u", "s", "e", "r", "_", "t", "o">>
      [] col = "message" -> <<"m", "e", "s", "s", "a", "g", "e">>

\* list(row.keys())
row_keys(row) == SelectSeq(UpsertColumns, LAMBDA col : col \in DOMAIN row)

\* col in key
in_key(key, col) == \E i \in 1..Len(key) : key[i] = col

\* isinstance(row.get(col), (int, float))
is_number(row, col) == col = "Message_ID" /\ col \in DOMAIN row

\* MockDataLink.sql_upsert: the rows are counted in a log entry and nothing
\* else is done with them
MockDataLink_sql_upsert(d0, table_name, data, key) ==
    IF data = <<>> THEN Return(called(d0, "sql_upsert", table_name), None)
    ELSE Return(log(called(d0, "sql_upsert", table_name), "info"), None)

\* PostgreSQLDataLink.sql_upsert: without rows or key columns it is
\* sql_insert; otherwise one INSERT ... ON CONFLICT (key) DO UPDATE statement
\* for each row is executed on the connection directly, nothing is logged, and
\* what the statements do is done by the server
PostgreSQLDataLink_sql_upsert(d0, table_name, data, key, o) ==
    IF data = <<>> \/ key = <<>>
    THEN net_sql_insert(called(d0, "sql_upsert", table_name), table_name, data, o)
    ELSE IF ~fails(called(d0, "sql_upsert", table_name), o)
    THEN Return(called(d0, "sql_upsert", table_name), None)
    ELSE IF o.fault = "connect"
    THEN reraise(connect_failure(called(d0, "sql_upsert", table_name)),
                 "Failed to connect after 3 attempts")
    ELSE reraise(called(d0, "sql_upsert", table_name), "statement rejected")

\* the value of a column as it is written into a statement
value_text(row, col) ==
    IF is_number(row, col) THEN str_of_int(row[col])
    ELSE IF get(row, col, None) = None THEN <<"N", "U", "L", "L">>
    ELSE sql_escape(row[col], TRUE)

\* one condition of the WHERE clause
where_condition(row, key_col) ==
    IF is_number(row, key_col) THEN column_text(key_col) \o <<" ", "=", " ">> \o str_of_int(row[key_col])
    ELSE IF get(row, key_col, None) = None THEN column_text(key_col) \o <<" ", "I", "S", " ", "N", "U", "L", "L">>
    ELSE column_text(key_col) \o <<" ", "=", " ">> \o sql_escape(row[key_col], TRUE)

where_clause(row, key) ==
    str_join(<<" ", "A", "N", "D", " ">>, [i \in 1..Len(key) |-> where_condition(row, key[i])])

\* the columns that are not key columns, each set to the row's value
set_clauses(row, columns) ==
    [i \in 1..Len(columns) |-> column_text(columns[i]) \o <<" ", "=", " ">> \o value_text(row, columns[i])]

insert_sql(table_name, row, columns) ==
    <<"I", "N", "S", "E", "R", "T", " ", "I", "N", "T", "O", " ">> \o table_name
    \o <<" ", "(">> \o str_join(<<",", " ">>, [i \in 1..Len(columns) |-> column_text(columns[i])])
    \o <<")", " ", "V", "A", "L", "U", "E", "S", " ", "(">> \o str_join(<<",", " ">>, [i \in 1..Len(columns) |-> value_text(row, columns[i])])
    \o <<")">>

\* the conditional statement for one row, stripped
upsert_text(table_name, where, sets, insert) ==
    IF sets # <<>>
    THEN <<"I", "F", " ", "E", "X", "I", "S", "T", "S", " ", "(", "S", "E", "L", "E", "C", "T", " ", "1", " ", "F", "R", "O", "M", " ">> \o table_name \o <<" ", "W", "H", "E", "R", "E", " ">> \o where \o <<")", "\n", " ", " ", " ", " ">>
         \o <<"U", "P", "D", "A", "T", "E", " ">> \o table_name \o <<" ", "S", "E", "T", " ">> \o str_join(<<",", " ">>, sets)
         \o <<" ", "W", "H", "E", "R", "E", " ">> \o where
         \o <<"\n", "E", "L", "S", "E", "\n", " ", " ", " ", " ">> \o insert
    ELSE <<"I", "F", " ", "N", "O", "T", " ", "E", "X", "I", "S", "T", "S", " ", "(", "S", "E", "L", "E", "C", "T", " ", "1", " ", "F", "R", "O", "M", " ">> \o table_name \o <<" ", "W", "H", "E", "R", "E", " ">> \o where \o <<")", "\n", " ", " ", " ", " ">>
         \o insert

upsert_sql(table_name, row, key) ==
    upsert_text(table_name,
                where_clause(row, key),
                set_clauses(row, SelectSeq(row_keys(row), LAMBDA col : ~in_key(key, col))),
                insert_sql(table_name, row, row_keys(row)))

RECURSIVE run_all(_, _, _)
\* the loop over the statements goes on unless sql_run raised
run_rest(r, all_sql, o) == IF r.raised THEN r ELSE run_all(r.d, all_sql, o)

\* for sql in all_sql: self.sql_run(sql, database)
run_all(d, all_sql, o) ==
    IF all_sql = <<>> THEN Return(d, None)
    ELSE run_rest(net_sql_run(d, Head(all_sql), o), Tail(all_sql), o)

\* DataLink.sql_upsert: without rows or key columns it is sql_insert;
\* otherwise one conditional UPDATE-or-INSERT statement for each row goes
\* through sql_run
DataLink_sql_upsert(d0, table_name, data, key, o) ==
    IF data = <<>> \/ key = <<>>
    THEN net_sql_insert(called(d0, "sql_upsert", table_name), table_name, data, o)
    ELSE run_all(called(d0, "sql_upsert", table_name),
                 [i \in 1..Len(data) |-> upsert_sql(table_name, data[i], key)], o)

\* self.db.sql_upsert
db_sql_upsert(d, table_name, data, key, o) ==
    IF d.kind = "mock" THEN MockDataLink_sql_upsert(d, table_name, data, key)
    ELSE IF d.kind = "postgresql" THEN PostgreSQLDataLink_sql_upsert(d, table_name, data, key, o)
    ELSE DataLink_sql_upsert(d, table_name, data, key, o)

---------------------------------------------------------------------------
(* A caller of SchemaCompatibility converts a row it read from the         *)
(* database to the standard names and back: tool_name holds the table,     *)
(* parameters the row read and result the converted row.                   *)

\* values of table: the mapped tables, and one without mapping
CompatTables == {"ai_agents", "ai_messages", "ai_memories", "ai_scripts", "orders"}

\* rows of the table as the database of the type returns them: the first n
\* mapped fields for every n, and a row with a field that has no mapping
PhysicalRows(database_type, table) ==
    {[i \in 1..n |-> <<field_mappings(database_type, table)[i][2], i>>] :
        n \in 0..Len(field_mappings(database_type, table))}
    \cup {<<<<<<"M", "o", "d", "e", "l", "_", "A", "P", "I", "_", "K", "E", "Y">>, 0>>, <<<<"N", "o", "t", "e">>, 1>>>>}

ConvertRowToStandard ==
    /\ Idle
    /\ \E table \in CompatTables :
          \E row \in PhysicalRows(kind, table) :
             /\ pc' = "standard"
             /\ tool_name' = table
             /\ parameters' = row
             /\ result' = convert_row_to_standard(kind, table, row)
    /\ UNCHANGED <<kind, mock_tables, log_entries, wasError, calls>>

ConvertRowFromStandard ==
    /\ pc = "standard"
    /\ pc' = "physical"
    /\ result' = convert_row_from_standard(kind, tool_name, result)
    /\ UNCHANGED <<kind, mock_tables, log_entries, wasError, calls, tool_name, parameters>>

CompatNext == ConvertRowToStandard \/ ConvertRowFromStandard

CompatSpec == Init /\ [][CompatNext]_vars

---------------------------------------------------------------------------
(* A caller escapes a value with the backend's sql_escape: parameters      *)
(* holds the arguments and result the text returned.                       *)

\* values of data: None, texts with and without single quotes, integers
EscapeValues ==
    {[type |-> "NoneType"]}
    \cup {[type |-> "str", v |-> t] :
             t \in {<<"O", "'", "B", "r", "i", "e", "n">>, <<"i", "t", "'", "s">>, <<"x">>, <<>>, <<"N", "o", "r", "m", "a", "l", " ", "s", "t", "r", "i", "n", "g">>, <<"T", "e", "s", "t", "'", "s", " ", "s", "t", "r", "i", "n", "g">>,
                    <<"D", "o", "n", "'", "t", " ", "d", "o", " ", "'", "t", "h", "i", "s", "'">>, <<"'">>, <<"'", "'">>, <<"N", "U", "L", "L">>, <<"N", "o", "n", "e">>, <<"1", "2", "3">>}}
    \cup {[type |-> "int", n |-> n] : n \in {0, 7, 123, 1000, -5}}

SqlEscape ==
    /\ Idle
    /\ \E data \in EscapeValues, quote \in BOOLEAN :
          /\ pc' = "escaped"
          /\ tool_name' = "sql_escape"
          /\ parameters' = [data |-> data, quote |-> quote]
          /\ result' = IF kind = "mock" THEN MockDataLink_sql_escape(data, quote)
                       ELSE IF kind = "postgresql" THEN PostgreSQLDataLink_sql_escape(data, quote)
                       ELSE DataLink_sql_escape(data, quote)
    /\ UNCHANGED <<kind, mock_tables, log_entries, wasError, calls>>

EscapeSpec == Init /\ [][SqlEscape]_vars

---------------------------------------------------------------------------
(* A caller upserts rows of messages through the backend: parameters holds *)
(* the arguments and result what the call returned or raised.              *)

\* the rows given: one that matches a stored message on Message_ID, one that
\* matches none, one with the key column only, one with the columns of a new
\* message
UpsertRows ==
    {<<>>,
     <<[Message_ID |-> 1, User_To |-> <<"a", "u", "d", "i", "t", "o", "r">>]>>,
     <<[Message_ID |-> 9, User_To |-> <<"a", "u", "d", "i", "t", "o", "r">>]>>,
     <<[Message_ID |-> 1, User_To |-> <<"a", "u", "d", "i", "t", "o", "r">>], [Message_ID |-> 9, User_To |-> None]>>,
     <<[Message_ID |-> 2]>>,
     <<[user_from |-> <<"a", "u", "d", "i", "t", "o", "r">>, user_to |-> LoanAnalyst, message |-> <<"i", "t", "'", "s", " ", "d", "o", "n", "e">>]>>}

\* what the server does to the calls of one upsert
UpsertOracles(k) ==
    IF k = "mock" THEN {NoFault}
    ELSE {o \in [fail_at : 0..3, fault : {"connect", "statement"}, rows : {<<>>},
                 rnd : {0}, ms : {0}] : o.fail_at = 0 => o.fault = "statement"}

\* the state after the call that gave r
Upserted(r) ==
    /\ pc' = "upserted"
    /\ result' = [raised |-> r.raised, value |-> r.value]
    /\ mock_tables' = r.d.mock_tables
    /\ log_entries' = r.d.log_entries
    /\ wasError' = r.d.wasError
    /\ calls' = r.d.calls

SqlUpsert ==
    /\ Idle
    /\ \E data \in UpsertRows, key \in {<<>>, <<"Message_ID">>, <<"Message_ID", "User_To">>}, o \in UpsertOracles(kind) :
          /\ tool_name' = "sql_upsert"
          /\ parameters' = [table_name |-> <<"A", "I", "_", "M", "e", "s", "s", "a", "g", "e", "s">>, data |-> data, key |-> key]
          /\ Upserted(db_sql_upsert(backend, <<"A", "I", "_", "M", "e", "s", "s", "a", "g", "e", "s">>, data, key, o))
    /\ UNCHANGED kind

UpsertSpec == Init /\ [][SqlUpsert]_vars

---------------------------------------------------------------------------
(* The message log behind the REST endpoints of main.py: send_message      *)
(* stores a message with sql_insert, get_messages reads the conversation   *)
(* of two users with sql_get.  parameters holds the arguments of the last  *)
(* request and result the rows it returned.                                *)

\* at most MaxMessages messages are sent
MaxMessages == 2

\* the users: the two of a seeded conversation, and one whose name differs
\* from an agent's in case only; every message is from or to creditmanager
MessageUsers == {<<"c", "r", "e", "d", "i", "t", "m", "a", "n", "a", "g", "e", "r">>, LoanAnalyst, <<"l", "o", "a", "n", "a", "n", "a", "l", "y", "s", "t">>}

\* the messages sent so far: their number is counted from the seeded ones on
\* the mock backend and from the inserts made on the others
messages_sent(d) ==
    IF d.kind = "mock" THEN Len(d.mock_tables.AI_Messages) - Len(_init_mock_data.AI_Messages)
    ELSE Cardinality({i \in 1..Len(d.calls) : d.calls[i].method = "sql_insert"})

\* what the server does to the next backend call: it serves it or fails it
MessageOracles(d) ==
    IF d.kind = "mock" THEN {NoFault}
    ELSE {NoFault,
          [NoFault EXCEPT !.fail_at = Len(d.calls) + 1],
          [NoFault EXCEPT !.fail_at = Len(d.calls) + 1, !.fault = "connect"]}

\* the query of a conversation, of the shape get_messages builds: with the
\* ORDER BY clause or without it
conversation_query(shape, agent, current_user) ==
    <<"S", "E", "L", "E", "C", "T", " ", "*", " ", "F", "R", "O", "M", " ", "A", "I", "_", "M", "e", "s", "s", "a", "g", "e", "s", " ", "W", "H", "E", "R", "E", " ", "(", "u", "s", "e", "r", "_", "f", "r", "o", "m", " ", "=", " ", "'">>
    \o agent \o <<"'", " ", "A", "N", "D", " ", "u", "s", "e", "r", "_", "t", "o", " ", "=", " ", "'">> \o current_user
    \o <<"'", ")", " ", "O", "R", " ", "(", "u", "s", "e", "r", "_", "f", "r", "o", "m", " ", "=", " ", "'">> \o current_user \o <<"'", " ", "A", "N", "D", " ", "u", "s", "e", "r", "_", "t", "o", " ", "=", " ", "'">> \o agent \o <<"'", ")">>
    \o (IF shape = "plain" THEN <<>> ELSE <<" ", "O", "R", "D", "E", "R", " ", "B", "Y", " ", "p", "o", "s", "t", "e", "d", " ", "D", "E", "S", "C">>)

\* the state after a backend call that gave r
Answered(r) ==
    /\ result' = [raised |-> r.raised, value |-> r.value]
    /\ mock_tables' = r.d.mock_tables
    /\ log_entries' = r.d.log_entries
    /\ wasError' = r.d.wasError
    /\ calls' = r.d.calls

\* send_message: the message is stored with the time of the clock, which has
\* advanced since the last message or has not
SendMessage ==
    /\ Idle
    /\ messages_sent(backend) < MaxMessages
    /\ \E user_from \in MessageUsers : \E user_to \in MessageUsers \ {user_from}, tick \in {0, 1} :
          /\ <<"c", "r", "e", "d", "i", "t", "m", "a", "n", "a", "g", "e", "r">> \in {user_from, user_to}
          /\ tool_name' = "send_message"
          /\ parameters' = [posted |-> datetime(2 * messages_sent(backend) + tick),
                            user_from |-> user_from, user_to |-> user_to,
                            message |-> "hello", user_read |-> None]
          /\ Answered(db_sql_insert(backend, <<"A", "I", "_", "M", "e", "s", "s", "a", "g", "e", "s">>,
                                    <<[posted |-> datetime(2 * messages_sent(backend) + tick),
                                       user_from |-> user_from, user_to |-> user_to,
                                       message |-> "hello", user_read |-> None]>>, NoFault))
    /\ UNCHANGED <<kind, pc>>

\* a caller reads the conversation of two users, as get_messages does
GetMessages ==
    /\ Idle
    /\ \E shape \in {"plain", "ordered"},
          agent \in MessageUsers \ {<<"c", "r", "e", "d", "i", "t", "m", "a", "n", "a", "g", "e", "r">>}, current_user \in {<<"c", "r", "e", "d", "i", "t", "m", "a", "n", "a", "g", "e", "r">>},
          o \in MessageOracles(backend) :
          /\ tool_name' = "get_messages"
          /\ parameters' = [shape |-> shape, agent |-> agent, current_user |-> current_user]
          /\ Answered(db_sql_get(backend, conversation_query(shape, agent, current_user), o))
    /\ pc' = "listed"
    /\ UNCHANGED kind

MessageNext == SendMessage \/ GetMessages

MessageSpec == Init /\ [][MessageNext]_vars


\* ---------------------------------------------------------------------------
\* The generic provider over a backend of any kind
\* ---------------------------------------------------------------------------

\* MCPToolProvider.execute_query with self.db a backend of any kind (the
\* provider is constructed over a PostgreSQL backend in test_pg_mcp.py)
execute_query_over(d, p, o) ==
    IF not_select(p.sql_query) THEN Return(d, [error |-> "Only SELECT queries are allowed"])
    ELSE query_result_generic(p, limited_generic(p), db_sql_get(d, limited_generic(p), o), o)

\* the backend answers of one execute_query: sql_get is its first call, the
\* insert of the history entry its second
HistoryOracles(k) ==
    IF k = "mock" THEN [fail_at : {0}, fault : {"statement"}, rows : {<<>>}, rnd : {0}, ms : 0..MaxExecMs]
    ELSE {o \in [fail_at : 0..2, fault : {"connect", "statement"},
                 rows : {<<>>, <<NetRow(1), NetRow(2), NetRow(3)>>}, rnd : {0}, ms : 0..MaxExecMs] :
            /\ o.fail_at = 0 => o.fault = "statement"
            /\ o.fail_at = 1 => o.rows = <<>>}

\* the envelope and the backend after a call
Delivered(r) ==
    /\ pc' = "returned"
    /\ result' = r.result
    /\ mock_tables' = r.d.mock_tables
    /\ log_entries' = r.d.log_entries
    /\ wasError' = r.d.wasError
    /\ calls' = r.d.calls
    /\ UNCHANGED kind

\* mcp.execute_tool("execute_query", {...}) on the generic provider
ExecuteQueryOver ==
    /\ Idle
    /\ \E sql \in SqlQueries, n \in RowLimits, o \in HistoryOracles(kind) :
          /\ tool_name' = "execute_query"
          /\ parameters' = [database_name |-> "TriAI_Main", sql_query |-> sql, row_limit |-> n, ms |-> o.ms]
          /\ Delivered(envelope(execute_query_over(backend,
                   [database_name |-> "TriAI_Main", sql_query |-> sql, row_limit |-> n], o)))

HistorySpec == Init /\ [][ExecuteQueryOver]_vars

---------------------------------------------------------------------------
(* SchemaCompatibility: statements built for a database type.  tool_name   *)
(* holds the table, parameters the arguments and result the statement.     *)

\* self.table_mappings[database_type].get(logical_table, logical_table)
get_table_name(database_type, logical_table) ==
    IF database_type = "postgresql" THEN logical_table
    ELSE IF logical_table = <<"a", "i", "_", "a", "g", "e", "n", "t", "s">> THEN <<"A", "I", "_", "A", "g", "e", "n", "t", "s">>
    ELSE IF logical_table = <<"a", "i", "_", "m", "e", "s", "s", "a", "g", "e", "s">> THEN <<"A", "I", "_", "M", "e", "s", "s", "a", "g", "e", "s">>
    ELSE IF logical_table = <<"a", "i", "_", "m", "e", "m", "o", "r", "i", "e", "s">> THEN <<"A", "I", "_", "M", "e", "m", "o", "r", "i", "e", "s">>
    ELSE IF logical_table = <<"a", "i", "_", "s", "c", "r", "i", "p", "t", "s">> THEN <<"A", "I", "_", "S", "c", "r", "i", "p", "t", "s">>
    ELSE logical_table

\* the name of the mapping of a table given by its text
mapped_table(table) ==
    IF table = <<"a", "i", "_", "a", "g", "e", "n", "t", "s">> THEN "ai_agents"
    ELSE IF table = <<"a", "i", "_", "m", "e", "s", "s", "a", "g", "e", "s">> THEN "ai_messages"
    ELSE IF table = <<"a", "i", "_", "m", "e", "m", "o", "r", "i", "e", "s">> THEN "ai_memories"
    ELSE IF table = <<"a", "i", "_", "s", "c", "r", "i", "p", "t", "s">> THEN "ai_scripts"
    ELSE "none"

\* SchemaCompatibility.get_field_name
get_field_name(database_type, table, logical_field) ==
    dict_get(field_mappings(database_type, mapped_table(table)), logical_field, logical_field)

\* the fields_str of build_select_query; fields is None or a list
fields_str(database_type, table, fields) ==
    IF fields.type = "list" /\ fields.items # <<>>
    THEN str_join(<<",", " ">>, [i \in 1..Len(fields.items) |->
                              get_field_name(database_type, table, fields.items[i])])
    ELSE <<"*">>

\* the statement before the row limit
unlimited_select(selected, physical_table, where, order) ==
    <<"S", "E", "L", "E", "C", "T", " ">> \o selected \o <<" ", "F", "R", "O", "M", " ">> \o physical_table
    \o (IF where # <<>> THEN <<" ", "W", "H", "E", "R", "E", " ">> \o where ELSE <<>>)
    \o (IF order # <<>> THEN <<" ", "O", "R", "D", "E", "R", " ", "B", "Y", " ">> \o order ELSE <<>>)

\* the row limit of build_select_query on query
select_limited(database_type, query, selected, limit) ==
    IF limit > 0
    THEN IF database_type = "sqlserver"
         THEN str_replace(query, <<"S", "E", "L", "E", "C", "T", " ">> \o selected,
                          <<"S", "E", "L", "E", "C", "T", " ", "T", "O", "P", " ">> \o str_of_int(limit) \o <<" ">> \o selected)
         ELSE query \o <<" ", "L", "I", "M", "I", "T", " ">> \o str_of_int(limit)
    ELSE query

\* a builder that appends LIMIT for every database type
build_select_query_limit(database_type, table, fields, where, order, limit) ==
    select_limited("mock",
        unlimited_select(fields_str(database_type, table, fields), get_table_name(database_type, table),
                         where, order),
        fields_str(database_type, table, fields), limit)

\* SchemaCompatibility.build_select_query
build_select_query(database_type, table, fields, where, order, limit) ==
    select_limited(database_type,
        unlimited_select(fields_str(database_type, table, fields), get_table_name(database_type, table),
                         where, order),
        fields_str(database_type, table, fields), limit)

\* values of table, fields, where_clause, order_by and limit
QueryTables == {<<"a", "i", "_", "a", "g", "e", "n", "t", "s">>, <<"a", "i", "_", "m", "e", "s", "s", "a", "g", "e", "s">>, <<"o", "r", "d", "e", "r", "s">>}

QueryFields ==
    {[type |-> "NoneType"], [type |-> "list", items |-> <<>>],
     [type |-> "list", items |-> <<<<"a", "g", "e", "n", "t">>>>],
     [type |-> "list", items |-> <<<<"a", "g", "e", "n", "t">>, <<"d", "e", "s", "c", "r", "i", "p", "t", "i", "o", "n">>, <<"p", "o", "l", "l", "i", "n", "g", "_", "i", "n", "t", "e", "r", "v", "a", "l">>>>],
     [type |-> "list", items |-> <<<<"m", "e", "s", "s", "a", "g", "e", "_", "i", "d">>, <<"u", "s", "e", "r", "_", "t", "o">>, <<"n", "o", "t", "e">>>>]}

QueryWheres ==
    {<<>>, <<"a", "g", "e", "n", "t", " ", "=", " ", "'", "T", "e", "s", "t", "A", "g", "e", "n", "t", "'">>, <<"n", "o", "t", "e", " ", "=", " ", "'", "L", "I", "M", "I", "T", " ", "5", " ", "T", "O", "P", " ", "3", "'">>,
     <<"a", "g", "e", "n", "t", " ", "I", "N", " ", "(", "S", "E", "L", "E", "C", "T", " ", "a", "g", "e", "n", "t", " ", "F", "R", "O", "M", " ", "a", "i", "_", "a", "g", "e", "n", "t", "s", ")">>, <<"i", "d", " ", "I", "N", " ", "(", "S", "E", "L", "E", "C", "T", " ", "*", " ", "F", "R", "O", "M", " ", "t", ")">>}

QueryOrders == {<<>>, <<"p", "o", "s", "t", "e", "d", " ", "D", "E", "S", "C">>, <<"(", "S", "E", "L", "E", "C", "T", " ", "*", " ", "F", "R", "O", "M", " ", "t", ")">>}

QueryLimits == {-1, 0, 1, 10}

BuildSelectQuery ==
    /\ Idle
    /\ \E table \in QueryTables, fields \in QueryFields, where \in QueryWheres,
          order \in QueryOrders, limit \in QueryLimits :
          /\ pc' = "built"
          /\ tool_name' = "build_select_query"
          /\ parameters' = [table |-> table, fields |-> fields, where_clause |-> where,
                            order_by |-> order, limit |-> limit]
          /\ result' = build_select_query(kind, table, fields, where, order, limit)
    /\ UNCHANGED <<kind, mock_tables, log_entries, wasError, calls>>

QuerySpec == Init /\ [][BuildSelectQuery]_vars

---------------------------------------------------------------------------
(* The log of a backend.  parameters holds every entry logged since        *)
(* construction, oldest first; result the last answer of read_log.         *)

\* <backend>.read_log: self.log_entries[-num:] if num > 0 else []
read_log(d, num) ==
    IF num > 0
    THEN SubSeq(d.log_entries,
                IF Len(d.log_entries) - num + 1 < 1 THEN 1 ELSE Len(d.log_entries) - num + 1,
                Len(d.log_entries))
    ELSE <<>>

\* log calls made before the history stops growing
MaxLogged == LogCap + 2

LogMessages == {"started", "error"}

\* db.log(message)
Log ==
    /\ Idle /\ Len(parameters) < MaxLogged
    /\ \E message \in LogMessages :
          /\ log_entries' = log(backend, message).log_entries
          /\ parameters' = Append(parameters, message)
    /\ tool_name' = "log"
    /\ UNCHANGED <<kind, mock_tables, wasError, pc, result, calls>>

\* the backend after a call that logged the entries
Logged(r, entries) ==
    /\ log_entries' = r.d.log_entries
    /\ wasError' = r.d.wasError
    /\ calls' = r.d.calls
    /\ mock_tables' = r.d.mock_tables
    /\ parameters' = parameters \o entries

\* db.sql_get(sql), which logs the query and, when it fails, the error
LogQuery ==
    /\ Idle /\ Len(parameters) < MaxLogged
    /\ \E o \in {NoFault, [NoFault EXCEPT !.fail_at = Len(calls) + 1]} :
          Logged(db_sql_get(backend, SelectAgentsLimit3, o),
                 db_sql_get([backend EXCEPT !.log_entries = <<>>],
                            SelectAgentsLimit3, o).d.log_entries)
    /\ tool_name' = "sql_get"
    /\ UNCHANGED <<kind, pc, result>>

\* db.read_log(num)
ReadLog ==
    /\ Idle
    /\ \E num \in -1..(LogCap + 2) :
          result' = [num |-> num, entries |-> read_log(backend, num)]
    /\ tool_name' = "read_log"
    /\ UNCHANGED <<kind, mock_tables, log_entries, wasError, pc, parameters, calls>>

LogNext == Log \/ LogQuery \/ ReadLog

LogSpec == Init /\ [][LogNext]_vars

---------------------------------------------------------------------------
(* The connection of a network backend.  Callers of sql_get and sql_run    *)
(* each run _get_connection; no lock is taken in the code, so their        *)
(* statements interleave.  Connections are numbered in the order they are  *)
(* opened.  In this specification                                          *)
(*   parameters = [instances |-> the length of self.instances]             *)
(*   result     = [cache  |-> self.connection / self.connections[db_key],  *)
(*                           0 for None,                                   *)
(*                 open   |-> the connections opened and not closed,       *)
(*                 broken |-> the connections on which a statement fails,  *)
(*                 opened |-> how many were opened so far]                 *)
(*   pc[c]      = [at, attempt, slept, value, held] of caller c: the       *)
(*                position in _get_connection, the loop variable, the      *)
(*                delays slept, the value returned and the connection      *)
(*                still referenced by the local cursor of a failed probe   *)

Callers == {1, 2}

\* connections opened before connect stops succeeding
MaxOpened == 3

max_retries == 3

retry_delay == 1

\* retry_delay * (2 ** attempt) for attempt 0 and 1
backoff(attempt) == IF attempt = 0 THEN retry_delay ELSE retry_delay * 2

NotCalling == [at |-> "idle", attempt |-> 0, slept |-> <<>>, value |-> 0, held |-> 0]

ConnInit ==
    /\ kind \in {"postgresql", "sqlserver"}
    /\ mock_tables = [AI_Agents |-> <<>>, AI_Messages |-> <<>>,
                      AI_Memories |-> <<>>, AI_Query_History |-> <<>>]
    /\ log_entries = <<>>
    /\ wasError = FALSE
    /\ pc = [c \in Callers |-> NotCalling]
    /\ tool_name = "_get_connection"
    /\ parameters \in [instances : IF kind = "postgresql" THEN {1} ELSE 0..2]
    /\ result = [cache |-> 0, open |-> {}, broken |-> {}, opened |-> 0]
    /\ calls = <<>>

\* the first statement of _get_connection: is there a cached connection
\* (for PostgreSQL: one that is not closed) to probe
GetConnection(c) ==
    /\ pc[c].at = "idle"
    /\ pc' = [pc EXCEPT ![c] =
                IF result.cache # 0 /\ (kind = "sqlserver" \/ result.cache \in result.open)
                THEN [NotCalling EXCEPT !.at = "probe", !.value = result.cache]
                ELSE [NotCalling EXCEPT !.at = "connect"]]
    /\ UNCHANGED <<kind, mock_tables, log_entries, wasError, tool_name, parameters, result, calls>>

\* PostgreSQLDataLink._close_connection: whatever self.connection holds now
\* is closed and forgotten
_close_connection(r) ==
    [r EXCEPT !.open = r.open \ {r.cache}, !.cache = 0]

\* DataLink: self.connections[db_key] = None.  The connection is closed when
\* its last reference goes; the cursor of the failed probe may still hold one.
forget_connection(r, conn, held) ==
    [r EXCEPT !.cache = 0, !.open = IF held THEN r.open ELSE r.open \ {conn}]

\* the probe SELECT 1 on the cached connection
Probe(c) ==
    /\ pc[c].at = "probe"
    /\ \/ /\ pc[c].value \in result.open \ result.broken
          /\ pc' = [pc EXCEPT ![c].at = "returned"]
          /\ UNCHANGED result
       \/ /\ pc[c].value \notin result.open \ result.broken
          /\ IF kind = "postgresql"
             THEN /\ result' = _close_connection(result)
                  /\ pc' = [pc EXCEPT ![c].at = "connect", ![c].value = 0]
             ELSE \E held \in BOOLEAN :
                     /\ result' = forget_connection(result, pc[c].value, held)
                     /\ pc' = [pc EXCEPT ![c].at = "connect", ![c].value = 0,
                                         ![c].held = IF held THEN pc[c].value ELSE 0]
    /\ UNCHANGED <<kind, mock_tables, log_entries, wasError, tool_name, parameters, calls>>

\* one pass of the retry loop that opens a connection, or fails to
Connect(c) ==
    /\ pc[c].at = "connect"
    /\ \/ \* for instance in self.instances: nothing to iterate over
          /\ parameters.instances = 0
          /\ pc' = [pc EXCEPT ![c].attempt = pc[c].attempt + 1,
                              ![c].at = IF pc[c].attempt + 1 < max_retries
                                        THEN "connect" ELSE "returned"]
          /\ UNCHANGED <<result, wasError, log_entries>>
       \/ \* connect succeeded: the connection is cached and returned
          /\ parameters.instances > 0 /\ result.opened < MaxOpened
          /\ result' = [result EXCEPT !.opened = result.opened + 1,
                                      !.open = result.open \cup {result.opened + 1},
                                      !.cache = result.opened + 1]
          /\ wasError' = FALSE
          /\ pc' = [pc EXCEPT ![c].at = "returned", ![c].value = result.opened + 1]
          /\ UNCHANGED log_entries
       \/ \* connect raised
          /\ parameters.instances > 0
          /\ wasError' = TRUE
          /\ log_entries' = log(backend, "error").log_entries
          /\ pc' = [pc EXCEPT ![c].at = IF pc[c].attempt < max_retries - 1
                                        THEN "sleep" ELSE "raised"]
          /\ UNCHANGED result
    /\ UNCHANGED <<kind, mock_tables, tool_name, parameters, calls>>

\* time.sleep(retry_delay * (2 ** attempt)), then the next pass
Sleep(c) ==
    /\ pc[c].at = "sleep"
    /\ pc' = [pc EXCEPT ![c].slept = Append(pc[c].slept, backoff(pc[c].attempt)),
                        ![c].attempt = pc[c].attempt + 1,
                        ![c].at = "connect"]
    /\ UNCHANGED <<kind, mock_tables, log_entries, wasError, tool_name, parameters, result, calls>>

\* the call of sql_get or sql_run that asked for the connection is over; its
\* locals are released
Finish(c) ==
    /\ pc[c].at \in {"returned", "raised"}
    /\ pc' = [pc EXCEPT ![c] = NotCalling]
    /\ result' = [result EXCEPT !.open = result.open \ {pc[c].held}]
    /\ UNCHANGED <<kind, mock_tables, log_entries, wasError, tool_name, parameters, calls>>

\* the server or the network drops an open connection
ConnectionLost ==
    /\ \E conn \in result.open \ result.broken :
          result' = [result EXCEPT !.broken = result.broken \cup {conn}]
    /\ UNCHANGED <<kind, mock_tables, log_entries, wasError, pc, tool_name, parameters, calls>>

ConnNext ==
    \/ \E c \in Callers : GetConnection(c)
    \/ \E c \in Callers : Probe(c)
    \/ \E c \in Callers : Connect(c)
    \/ \E c \in Callers : Sleep(c)
    \/ \E c \in Callers : Finish(c)
    \/ ConnectionLost

ConnSpec == ConnInit /\ [][ConnNext]_vars

---------------------------------------------------------------------------
(* sql_insert of the network backends, chunk by chunk.                     *)

RECURSIVE chunks(_, _)
\* data[i:i + chunk_size] for i in range(0, len(data), chunk_size)
chunks(data, chunk_size) ==
    IF Len(data) <= chunk_size THEN <<data>>
    ELSE <<SubSeq(data, 1, chunk_size)>> \o chunks(SubSeq(data, chunk_size + 1, Len(data)), chunk_size)

\* ", ".join(columns)
joined_columns(columns) == str_join(<<",", " ">>, [i \in 1..Len(columns) |-> column_text(columns[i])])

\* f"({', '.join(values)})" for a row of a chunk
values_clause(row, columns) ==
    <<"(">> \o str_join(<<",", " ">>, [i \in 1..Len(columns) |-> value_text(row, columns[i])]) \o <<")">>

\* the INSERT statement DataLink.sql_insert builds for a chunk
chunk_sql(table_name, chunk) ==
    <<"I", "N", "S", "E", "R", "T", " ", "I", "N", "T", "O", " ">> \o table_name \o <<" ", "(">> \o joined_columns(row_keys(chunk[1])) \o <<")", " ", "V", "A", "L", "U", "E", "S", " ">>
    \o str_join(<<",", " ">>, [i \in 1..Len(chunk) |-> values_clause(chunk[i], row_keys(chunk[1]))])

\* DataLink.sql_insert for a list of rows
DataLink_sql_insert(d0, table_name, data, chunk_size, run, o) ==
    IF data = <<>> THEN Return(called(d0, "sql_insert", table_name), None)
    ELSE IF ~run
    THEN Return(called(d0, "sql_insert", table_name),
                str_join(<<";", "\n">>, [i \in 1..Len(chunks(data, chunk_size)) |->
                                      chunk_sql(table_name, chunks(data, chunk_size)[i])]))
    ELSE run_all(called(d0, "sql_insert", table_name),
                 [i \in 1..Len(chunks(data, chunk_size)) |->
                     chunk_sql(table_name, chunks(data, chunk_size)[i])], o)

\* "(%s, %s)" with one placeholder for each column
placeholders(columns) == <<"(">> \o str_join(<<",", " ">>, [i \in 1..Len(columns) |-> <<"%", "s">>]) \o <<")">>

\* the statement PostgreSQLDataLink.sql_insert executes for a chunk: for more
\* than one row it is rebuilt with columns_str, which still holds the columns
\* of the last chunk built
pg_chunk_sql(table_name, chunk, last_chunk) ==
    IF Len(chunk) > 1
    THEN <<"I", "N", "S", "E", "R", "T", " ", "I", "N", "T", "O", " ">> \o table_name \o <<" ", "(">> \o joined_columns(row_keys(last_chunk[1])) \o <<")", " ", "V", "A", "L", "U", "E", "S", " ">>
         \o str_join(<<",", " ">>, [i \in 1..Len(chunk) |-> placeholders(row_keys(chunk[1]))])
    ELSE <<"I", "N", "S", "E", "R", "T", " ", "I", "N", "T", "O", " ">> \o table_name \o <<" ", "(">> \o joined_columns(row_keys(chunk[1])) \o <<")", " ", "V", "A", "L", "U", "E", "S", " ">>
         \o placeholders(row_keys(chunk[1]))

RECURSIVE flat_values(_, _)
\* [row.get(col) for col in columns] of every row of the chunk, in one list
flat_values(chunk, columns) ==
    IF chunk = <<>> THEN <<>>
    ELSE [i \in 1..Len(columns) |-> get(chunk[1], columns[i], None)] \o flat_values(Tail(chunk), columns)

\* cursor.execute(sql, values) on the connection
pg_execute(d1, o) ==
    IF fails(d1, o) THEN reraise(d1, "statement rejected") ELSE Return(d1, None)

RECURSIVE pg_execute_all(_, _, _, _, _)
pg_execute_rest(r, table_name, all_chunks, k, o) ==
    IF r.raised THEN r ELSE pg_execute_all(r.d, table_name, all_chunks, k + 1, o)

\* for sql, chunk, columns in all_sql: ... cursor.execute
pg_execute_all(d, table_name, all_chunks, k, o) ==
    IF k > Len(all_chunks) THEN Return(d, None)
    ELSE pg_execute_rest(pg_execute([d EXCEPT !.calls = Append(@,
                                        [method |-> "execute",
                                         arg |-> pg_chunk_sql(table_name, all_chunks[k], all_chunks[Len(all_chunks)]),
                                         values |-> flat_values(all_chunks[k], row_keys(all_chunks[k][1]))])], o),
                         table_name, all_chunks, k, o)

\* PostgreSQLDataLink.sql_insert for a list of rows
PostgreSQLDataLink_sql_insert(d0, table_name, data, chunk_size, run, o) ==
    IF data = <<>> THEN Return(called(d0, "sql_insert", table_name), None)
    ELSE IF ~run
    THEN Return(called(d0, "sql_insert", table_name),
                <<"I", "N", "S", "E", "R", "T", " ", "I", "N", "T", "O", " ">> \o table_name \o <<" ", "(", ".", ".", ".", ")", " ", "V", "A", "L", "U", "E", "S", " ", "(", ".", ".", ".", ")", " ", "-", "-", " ">>
                \o str_of_int(Len(data)) \o <<" ", "r", "o", "w", "s">>)
    ELSE IF o.fault = "connect" /\ o.fail_at > 0
    THEN reraise(connect_failure(called(d0, "sql_insert", table_name)),
                 "Failed to connect after 3 attempts")
    ELSE pg_execute_all(called(d0, "sql_insert", table_name), table_name,
                        chunks(data, chunk_size), 1, o)

---------------------------------------------------------------------------
(* A caller inserts rows through a network backend: parameters holds the   *)
(* arguments and result what the call returned or raised.                  *)

\* chunk_size ranges over 1..MaxChunk
MaxChunk == 3

\* the rows given: up to four rows with the same columns, and three rows of
\* which the last has another column
InsertRows ==
    {[i \in 1..n |-> [Message_ID |-> i, User_To |-> IF i = 2 THEN <<"i", "t", "'", "s">> ELSE <<"a", "u", "d", "i", "t", "o", "r">>]] : n \in 0..4}
    \cup {<<[Message_ID |-> 1], [Message_ID |-> 2], [User_To |-> <<"a", "u", "d", "i", "t", "o", "r">>]>>}

\* what the server does to the statements of one insert: the call of
\* sql_insert is the first entry of the trace, its statements follow
InsertOracles ==
    {o \in [fail_at : {0} \cup 2..5, fault : {"connect", "statement"}, rows : {<<>>},
            rnd : {0}, ms : {0}] : o.fail_at = 0 => o.fault = "statement"}

InsertInit == Init /\ kind # "mock"

SqlInsert ==
    /\ Idle
    /\ \E data \in InsertRows, chunk_size \in 1..MaxChunk, run \in BOOLEAN, o \in InsertOracles :
          /\ tool_name' = "sql_insert"
          /\ parameters' = [table_name |-> <<"A", "I", "_", "M", "e", "s", "s", "a", "g", "e", "s">>, data |-> data,
                            chunk_size |-> chunk_size, run |-> run]
          /\ Upserted(IF kind = "postgresql"
                      THEN PostgreSQLDataLink_sql_insert(backend, <<"A", "I", "_", "M", "e", "s", "s", "a", "g", "e", "s">>, data, chunk_size, run, o)
                      ELSE DataLink_sql_insert(backend, <<"A", "I", "_", "M", "e", "s", "s", "a", "g", "e", "s">>, data, chunk_size, run, o))
    /\ UNCHANGED kind

InsertSpec == InsertInit /\ [][SqlInsert]_vars

---------------------------------------------------------------------------
(* Successive store_memory calls on one provider: parameters holds, for    *)
(* each call made so far, its arguments, the data it returned and the      *)
(* backend methods it invoked; result the last envelope.                   *)

\* store_memory calls made before the provider is left alone
MaxStores == 2

MemoryLabels == {<<"Q", "4", " ", "s", "a", "l", "e", "s">>, <<"n", "o", "t", "e", "s">>}

\* the provider and the record of its calls after a call that gave r
Stored(a, l, r) ==
    /\ result' = r.result
    /\ parameters' = Append(parameters, [agent_name |-> a, memory_label |-> l,
                                          returned |-> r.result, calls |-> r.d.calls])
    /\ mock_tables' = r.d.mock_tables
    /\ log_entries' = r.d.log_entries
    /\ wasError' = r.d.wasError
    /\ calls' = r.d.calls

StoreMemoryAgain ==
    /\ Idle /\ Len(parameters) < MaxStores
    /\ \E a \in AgentNames, l \in MemoryLabels :
          \E o \in ToolOracles(kind, "store_memory",
                               [agent_name |-> a, memory_label |-> l, memory_content |-> <<"i", "t", "'", "s", " ", "u", "p">>,
                                related_to_tags |-> <<"s", "a", "l", "e", "s">>]) :
             Stored(a, l, execute_tool(backend, "store_memory",
                                       [agent_name |-> a, memory_label |-> l, memory_content |-> <<"i", "t", "'", "s", " ", "u", "p">>,
                                        related_to_tags |-> <<"s", "a", "l", "e", "s">>], o))
    /\ tool_name' = "store_memory"
    /\ UNCHANGED <<kind, pc>>

MemorySpec == Init /\ [][StoreMemoryAgain]_vars

---------------------------------------------------------------------------
(* An agent recalls memories with tags or search text of its choosing:     *)
(* parameters holds the arguments and result the envelope.                 *)

\* tags and search texts, some of them words of SQL
RecallTexts == {<<"m", "o", "r", "t", "g", "a", "g", "e">>, <<"l", "i", "m", "i", "t">>, <<"o", "r", "d", "e", "r", " ", "b", "y">>, <<"w", "h", "e", "r", "e">>}

\* the state after the call of the tool with params that gave r
Recalled(name, params, r) ==
    /\ pc' = "recalled"
    /\ tool_name' = name
    /\ parameters' = params
    /\ result' = r.result
    /\ mock_tables' = r.d.mock_tables
    /\ log_entries' = r.d.log_entries
    /\ wasError' = r.d.wasError
    /\ calls' = r.d.calls

RecallMemories ==
    /\ Idle
    /\ \E a \in AgentNames, t \in RecallTexts, n \in 1..MaxRowLimit :
          \E o \in ToolOracles(kind, "retrieve_memories",
                               [agent_name |-> a, related_to_tags |-> t, limit |-> n]) :
             Recalled("retrieve_memories", [agent_name |-> a, related_to_tags |-> t, limit |-> n],
                      execute_tool(backend, "retrieve_memories",
                                   [agent_name |-> a, related_to_tags |-> t, limit |-> n], o))
    /\ UNCHANGED kind

SearchMemoriesFor ==
    /\ Idle
    /\ \E a \in AgentNames, t \in RecallTexts, n \in 1..MaxRowLimit :
          \E o \in ToolOracles(kind, "search_memories",
                               [agent_name |-> a, search_text |-> t, limit |-> n]) :
             Recalled("search_memories", [agent_name |-> a, search_text |-> t, limit |-> n],
                      execute_tool(backend, "search_memories",
                                   [agent_name |-> a, search_text |-> t, limit |-> n], o))
    /\ UNCHANGED kind

RecallNext == RecallMemories \/ SearchMemoriesFor

RecallSpec == Init /\ [][RecallNext]_vars

---------------------------------------------------------------------------
(* The store-and-forward flow of messages over the mock backend: users     *)
(* post messages, an agent polls (check_messages), answers each message    *)
(* (send_response) and marks the ones it answered (mark_read).  In this    *)
(* specification                                                           *)
(*   pc         = "idle" between polling cycles, "processing" inside one   *)
(*   tool_name  = the agent that is polling                                *)
(*   parameters = [messages |-> the rows check_messages returned,          *)
(*                 next |-> the index of the message to process,           *)
(*                 ids |-> message_ids_to_mark]                            *)
(*   result     = [answered |-> the Message_ID of every message answered,  *)
(*                             in order,                                   *)
(*                 marked |-> the ids sent with mark_read]                 *)

\* answers sent before the agents stop polling
MaxAnswers == 2

\* messages posted by users
MaxPosted == 2

PollAgents == {LoanAnalyst, <<"l", "o", "a", "n", "a", "n", "a", "l", "y", "s", "t">>}

PollInit ==
    /\ kind = "mock"
    /\ mock_tables = _init_mock_data
    /\ log_entries = <<>>
    /\ wasError = FALSE
    /\ pc = "idle"
    /\ tool_name = <<>>
    /\ parameters = [messages |-> <<>>, next |-> 1, ids |-> <<>>]
    /\ result = [answered |-> <<>>, marked |-> {}]
    /\ calls = <<>>

\* the backend as a handler finds it: calls lists the backend methods the
\* handler invoked
at_handler == [backend EXCEPT !.calls = <<>>]

\* the backend after a call that gave r
Backend(r) ==
    /\ mock_tables' = r.d.mock_tables
    /\ log_entries' = r.d.log_entries
    /\ wasError' = r.d.wasError
    /\ calls' = r.d.calls

\* POST /api/message: the current user posts a message to an agent
PostMessage ==
    /\ messages_sent(backend) - Len(result.answered) < MaxPosted
    /\ \E agent \in PollAgents :
          Backend(db_sql_insert(at_handler, <<"A", "I", "_", "M", "e", "s", "s", "a", "g", "e", "s">>,
                      <<[posted |-> datetime(messages_sent(backend) + 1),
                         user_from |-> <<"c", "r", "e", "d", "i", "t", "m", "a", "n", "a", "g", "e", "r">>, user_to |-> agent,
                         message |-> "hello", user_read |-> None]>>, NoFault))
    /\ UNCHANGED <<kind, pc, tool_name, parameters, result>>

\* the statement of check_messages
check_messages_query(agent_name) ==
    <<"\n", " ", " ", " ", " ", " ", " ", " ", " ", " ", " ", " ", " ", " ", " ", " ", " ", " ", " ", " ", " ", " ", " ", " ", " ", " ", " ", " ", " ", "S", "E", "L", "E", "C", "T", " ", "m", "e", "s", "s", "a", "g", "e", "_", "i", "d", ",", " ", "p", "o", "s", "t", "e", "d", ",", " ", "u", "s", "e", "r", "_", "f", "r", "o", "m", ",", " ", "m", "e", "s", "s", "a", "g", "e", "\n", " ", " ", " ", " ", " ", " ", " ", " ", " ", " ", " ", " ", " ", " ", " ", " ", " ", " ", " ", " ", " ", " ", " ", " ", " ", " ", " ", " ", "F", "R", "O", "M", " ", "A", "I", "_", "M", "e", "s", "s", "a", "g", "e", "s", " ", "\n", " ", " ", " ", " ", " ", " ", " ", " ", " ", " ", " ", " ", " ", " ", " ", " ", " ", " ", " ", " ", " ", " ", " ", " ", " ", " ", " ", " ", "W", "H", "E", "R", "E", " ", "u", "s", "e", "r", "_", "t", "o", " ", "=", " ", "'">>
    \o agent_name
    \o <<"'", " ", "A", "N", "D", " ", "u", "s", "e", "r", "_", "r", "e", "a", "d", " ", "I", "S", " ", "N", "U", "L", "L", "\n", " ", " ", " ", " ", " ", " ", " ", " ", " ", " ", " ", " ", " ", " ", " ", " ", " ", " ", " ", " ", " ", " ", " ", " ", " ", " ", " ", " ", "O", "R", "D", "E", "R", " ", "B", "Y", " ", "p", "o", "s", "t", "e", "d", " ", "A", "S", "C", "\n", " ", " ", " ", " ", " ", " ", " ", " ", " ", " ", " ", " ", " ", " ", " ", " ", " ", " ", " ", " ", " ", " ", " ", " ", " ", " ", " ", " ">>

\* the cycle with the rows check_messages gave
Polled(r) ==
    /\ Backend(r)
    /\ parameters' = [messages |-> r.value, next |-> 1, ids |-> <<>>]
    /\ pc' = IF r.value = <<>> THEN "idle" ELSE "processing"

\* the polling cycle starts: the agent asks for its unread messages
CheckMessages ==
    /\ pc = "idle"
    /\ \E agent \in PollAgents :
          /\ tool_name' = agent
          /\ Polled(db_sql_get(at_handler, check_messages_query(agent), NoFault))
    /\ UNCHANGED <<kind, result>>

\* process_message and send_response for the next message of the cycle
SendResponse ==
    /\ pc = "processing"
    /\ parameters.next <= Len(parameters.messages)
    /\ Len(result.answered) < MaxAnswers
    /\ Backend(db_sql_insert(at_handler, <<"A", "I", "_", "M", "e", "s", "s", "a", "g", "e", "s">>,
                   <<[posted |-> datetime(messages_sent(backend) + 1),
                      user_from |-> tool_name,
                      user_to |-> parameters.messages[parameters.next].User_From,
                      message |-> "answer", user_read |-> None]>>, NoFault))
    /\ result' = [result EXCEPT !.answered =
                     Append(@, parameters.messages[parameters.next].Message_ID)]
    /\ parameters' = [parameters EXCEPT
                         !.next = @ + 1,
                         !.ids = Append(@, parameters.messages[parameters.next].Message_ID)]
    /\ UNCHANGED <<kind, pc, tool_name>>

\* the statement of mark_read for a message
mark_read_query(msg_id) ==
    <<"\n", " ", " ", " ", " ", " ", " ", " ", " ", " ", " ", " ", " ", " ", " ", " ", " ", " ", " ", " ", " ", " ", " ", " ", " ", " ", " ", " ", " ", " ", " ", " ", " ", "U", "P", "D", "A", "T", "E", " ", "A", "I", "_", "M", "e", "s", "s", "a", "g", "e", "s", " ", "\n", " ", " ", " ", " ", " ", " ", " ", " ", " ", " ", " ", " ", " ", " ", " ", " ", " ", " ", " ", " ", " ", " ", " ", " ", " ", " ", " ", " ", " ", " ", " ", " ", "S", "E", "T", " ", "u", "s", "e", "r", "_", "r", "e", "a", "d", " ", "=", " ", "C", "U", "R", "R", "E", "N", "T", "_", "T", "I", "M", "E", "S", "T", "A", "M", "P", "\n", " ", " ", " ", " ", " ", " ", " ", " ", " ", " ", " ", " ", " ", " ", " ", " ", " ", " ", " ", " ", " ", " ", " ", " ", " ", " ", " ", " ", " ", " ", " ", " ", "W", "H", "E", "R", "E", " ", "m", "e", "s", "s", "a", "g", "e", "_", "i", "d", " ", "=", " ">>
    \o str_of_int(msg_id)
    \o <<"\n", " ", " ", " ", " ", " ", " ", " ", " ", " ", " ", " ", " ", " ", " ", " ", " ", " ", " ", " ", " ", " ", " ", " ", " ", " ", " ", " ", " ", " ", " ", " ", " ">>

RECURSIVE mark_read(_, _)
\* for msg_id in message_ids: self.db.sql_run(update_query)
mark_read(d, message_ids) ==
    IF message_ids = <<>> THEN Return(d, None)
    ELSE mark_read(db_sql_run(d, mark_read_query(Head(message_ids)), NoFault).d, Tail(message_ids))

\* the polling cycle ends: the ids of the messages answered are marked read
MarkRead ==
    /\ pc = "processing"
    /\ parameters.next > Len(parameters.messages)
    /\ Backend(mark_read(at_handler, parameters.ids))
    /\ result' = [result EXCEPT !.marked = @ \cup {parameters.ids[i] : i \in 1..Len(parameters.ids)}]
    /\ pc' = "idle"
    /\ parameters' = [messages |-> <<>>, next |-> 1, ids |-> <<>>]
    /\ UNCHANGED <<kind, tool_name>>

PollNext == PostMessage \/ CheckMessages \/ SendResponse \/ MarkRead

PollSpec == PollInit /\ [][PollNext]_vars
---------------------------------------------------------------------------
(* Properties of execute_tool.                                             *)

\* the caller holds the envelope of a call of tool `name` whose parameters bound
Invoked(name) == Returned /\ tool_name = name /\ ~BindError(name, parameters)

\* an exception left a backend method during the call
BackendRaised == \E i \in 1..Len(calls) : calls[i].method = "raise"

\* the key set of the registry
RegistryKeys(k) == {tools(k)[i] : i \in 1..Len(tools(k))}

\* the trimmed, case-folded text starts with select
StartsWithSelect(text) == str_startswith(str_strip(str_lower(text)), <<"s", "e", "l", "e", "c", "t">>)

\* C1: every call of execute_tool returns one envelope that has the key
\* success, has the key error exactly when success is false, and has the key
\* data only when success is true.
EnvelopeShape ==
    Returned =>
        /\ "success" \in DOMAIN result
        /\ ("error" \in DOMAIN result) <=> (result.success = FALSE)
        /\ ("data" \in DOMAIN result) => (result.success = TRUE)

\* a tool body raised and the caller holds the envelope made of the exception
EnvelopeAfterRaise ==
    /\ Invoked("check_permissions")
    /\ parameters.operation = None
    /\ result.success = FALSE
    /\ "error" \in DOMAIN result

\* C2: a call with a name that is not in the registry returns an envelope with
\* success false and a non-empty available_tools list whose elements are the
\* registry's keys; it calls no backend method and changes no table.
UnknownToolRejected ==
    [][(Pending /\ Returned' /\ ~Registered(kind, tool_name)) =>
          /\ "success" \in DOMAIN result'
          /\ result'.success = FALSE
          /\ "available_tools" \in DOMAIN result'
          /\ result'.available_tools # <<>>
          /\ {result'.available_tools[i] : i \in 1..Len(result'.available_tools)}
                = RegistryKeys(kind)
          /\ calls' = <<>>
          /\ mock_tables' = mock_tables]_vars

\* the caller holds the envelope of a call with an unregistered name
UnknownToolCalled ==
    /\ Returned
    /\ tool_name = "drop_table"
    /\ parameters # <<>>
    /\ result.success = FALSE

\* C3: for a registered tool, whenever an exception is raised during the
\* invocation (the parameters do not bind, the tool body raises, or the backend
\* raises inside the tool body) the envelope returned has success false and
\* carries the error.
ExceptionsBecomeErrorEnvelopes ==
    (/\ Returned
     /\ Registered(kind, tool_name)
     /\ \/ BindError(tool_name, parameters)
        \/ BackendRaised
        \/ (tool_name = "check_permissions" /\ parameters.operation = None))
    => (result.success = FALSE /\ "error" \in DOMAIN result)

\* C4: execute_query with a statement whose trimmed, case-folded text does not
\* start with select returns success false with the error "Only SELECT queries
\* are allowed"; the mixed-case SeLeCt statement is not rejected by the gate.
NonSelectRejected ==
    /\ (Invoked("execute_query") /\ ~StartsWithSelect(parameters.sql_query))
          => (result.success = FALSE /\ result.error = "Only SELECT queries are allowed")
    /\ (Invoked("execute_query") /\ parameters.sql_query = SelectMixedCase)
          => ~(result.success /\ "error" \in DOMAIN result.data
               /\ result.data.error = "Only SELECT queries are allowed")

\* C5: execute_query passes to sql_get only text whose trimmed, case-folded
\* form starts with select; a rejected call calls no backend method and leaves
\* the tables (QueryHistory included) as they were.
SelectOnly ==
    [][(Pending /\ Returned' /\ tool_name = "execute_query") =>
          /\ \A i \in 1..Len(calls') :
                calls'[i].method = "sql_get" => StartsWithSelect(calls'[i].arg)
          /\ ("sql_query" \in DOMAIN parameters /\ ~StartsWithSelect(parameters.sql_query))
                => (calls' = <<>> /\ mock_tables' = mock_tables)]_vars

\* the gate rejected a statement and nothing reached the backend
SelectGateRejected ==
    /\ Invoked("execute_query")
    /\ parameters.sql_query = DropTable
    /\ calls = <<>>

\* C6: when the backend raises during a tool call, the envelope returned has
\* success false and an error message; no envelope with success true reports a
\* backend failure.
BackendFailuresSurface ==
    (Returned /\ BackendRaised) => (result.success = FALSE /\ "error" \in DOMAIN result)

\* the call recorded its query: the history table grew by one entry, or (the
\* table being on the server) one insert into the history table was made
HistoryAppended ==
    IF kind = "mock"
    THEN /\ Len(mock_tables'.AI_Query_History) = Len(mock_tables.AI_Query_History) + 1
         /\ SubSeq(mock_tables'.AI_Query_History, 1, Len(mock_tables.AI_Query_History))
               = mock_tables.AI_Query_History
    ELSE Cardinality({i \in 1..Len(calls') :
                         /\ calls'[i].method = "sql_insert"
                         /\ str_lower(calls'[i].arg) = <<"a", "i", "_", "q", "u", "e", "r", "y", "_", "h", "i", "s", "t", "o", "r", "y">>}) = 1

\* C7: every execute_query call that passes the gate and whose query succeeds
\* appends exactly one entry to QueryHistory, and leaves the earlier entries
\* as they were.
QueryHistoryGrows ==
    [][(/\ Pending
        /\ Returned'
        /\ tool_name = "execute_query"
        /\ result'.success
        /\ "row_count" \in DOMAIN result'.data) => HistoryAppended]_vars

\* the statement has no row-limiting clause: none of its words is limit or top
LacksLimit(sql) ==
    LET words == str_split(str_lower(sql))
    IN  \A i \in 1..Len(words) : words[i] \notin {<<"l", "i", "m", "i", "t">>, <<"t", "o", "p">>}

\* the statement sent carries the row-limiting clause of the dialect for n
CarriesLimit(k, sent, n) ==
    LET words == str_split(str_lower(sent))
    IN  IF k = "sqlserver"
        THEN Len(words) >= 3 /\ words[2] = <<"t", "o", "p">> /\ words[3] = str_of_int(n)
        ELSE Len(words) >= 2 /\ words[Len(words) - 1] = <<"l", "i", "m", "i", "t">>
                             /\ words[Len(words)] = str_of_int(n)

\* C8: an accepted execute_query with row_limit > 0 and a statement without a
\* row-limiting clause sends a statement that carries the clause, and its
\* result has row_count = Len(results) <= row_limit; for SELECT * FROM
\* AI_Agents LIMIT 3 the result has row_count <= 3.
RowLimitHonoured ==
    (/\ Invoked("execute_query")
     /\ result.success
     /\ "row_count" \in DOMAIN result.data)
    => LET p == Bind("execute_query", parameters)
       IN  /\ (p.row_limit > 0 /\ LacksLimit(p.sql_query))
                => CarriesLimit(kind, calls[1].arg, p.row_limit)
           /\ kind = "mock" =>
                /\ result.data.row_count = Len(result.data.results)
                /\ (p.row_limit > 0 /\ LacksLimit(p.sql_query))
                      => result.data.row_count <= p.row_limit
                /\ p.sql_query = SelectAgentsLimit3 => result.data.row_count <= 3

\* the characters of a word
WordChars ==
    DOMAIN UpperToLower \cup {UpperToLower[c] : c \in DOMAIN UpperToLower}
    \cup {Digits[i] : i \in 1..10} \cup {"_"}

\* keyword occurs in text as a whole word
WholeWord(keyword, text) ==
    \E i \in Occurrences(text, keyword) :
        /\ i = 1 \/ text[i - 1] \notin WordChars
        /\ i + Len(keyword) > Len(text) \/ text[i + Len(keyword)] \notin WordChars

\* C9: validate_sql flags a dangerous keyword (drop, delete, update, insert,
\* truncate, alter, create) exactly when it occurs in the statement as a whole
\* word; DROP TABLE ai_agents is not valid and its issues name drop; SELECT *
\* FROM ai_agents is valid with no issues.
KeywordsFlaggedAsWords ==
    (Invoked("validate_sql") /\ result.success)
    => LET issues == {result.data.issues[i] : i \in 1..Len(result.data.issues)}
           sql    == parameters.sql_query
       IN  /\ \A keyword \in {<<"d", "r", "o", "p">>, <<"d", "e", "l", "e", "t", "e">>, <<"u", "p", "d", "a", "t", "e">>, <<"i", "n", "s", "e", "r", "t">>,
                              <<"t", "r", "u", "n", "c", "a", "t", "e">>, <<"a", "l", "t", "e", "r">>, <<"c", "r", "e", "a", "t", "e">>} :
                  (<<"keyword", keyword>> \in issues) <=> WholeWord(keyword, str_lower(sql))
           /\ sql = DropTable =>
                (~result.data.valid /\ <<"keyword", <<"d", "r", "o", "p">>>> \in issues)
           /\ sql = SelectLower => (result.data.valid /\ issues = {})

\* rows holds the memory stored with the parameters p, not yet recalled
HoldsMemory(rows, p) ==
    \E i \in 1..Len(rows) :
        /\ "Memory_Label" \in DOMAIN rows[i]
        /\ rows[i].Memory_Label = p.memory_label
        /\ rows[i].Memory = p.memory_content
        /\ rows[i].Related_To = p.related_to_tags
        /\ rows[i].Times_Recalled = 0

\* retrieve_memories for the agent of p and the one tag, with the default
\* limit, returns the memory stored with p
RetrievedBy(p, tag) ==
    HoldsMemory(retrieve_memories_generic(
                    backend,
                    Bind("retrieve_memories", [agent_name |-> p.agent_name,
                                               related_to_tags |-> tag]),
                    NoFault).value,
                p)

\* every word of words retrieves the memory stored with p
EachTagRetrieves(p, words) == \A w \in 1..Len(words) : RetrievedBy(p, words[w])

\* C10: after store_memory returned stored = true, retrieve_memories for the
\* same agent and any one word of the tags, with the default limit, returns a
\* row with the stored label, content and tags and recall counter 0.
StoredMemoryRetrievable ==
    (/\ Invoked("store_memory")
     /\ kind = "mock"
     /\ result.success
     /\ "stored" \in DOMAIN result.data
     /\ result.data.stored = TRUE)
    => EachTagRetrieves(parameters, str_split(parameters.related_to_tags))

---------------------------------------------------------------------------
(* Properties of the memory tools.                                         *)

\* the ids of the memories in the rows a memory tool returned
ReturnedIds(rows) ==
    {rows[i].Memory_ID : i \in {j \in 1..Len(rows) : "Memory_ID" \in DOMAIN rows[j]}}

\* the rows are the memories of a result, not the report of an error
AreMemories(rows) == \A i \in 1..Len(rows) : "Memory_ID" \in DOMAIN rows[i]

\* C11: each retrieve_memories call increases the stored recall counter of
\* every row it returns by exactly 1 and sets that row's last-recalled
\* timestamp, and leaves the recall counter of every other row unchanged.
RecallCountersAdvance ==
    [][(/\ Pending
        /\ Returned'
        /\ kind = "mock"
        /\ tool_name = "retrieve_memories"
        /\ result'.success
        /\ AreMemories(result'.data))
       => /\ Len(mock_tables'.AI_Memories) = Len(mock_tables.AI_Memories)
          /\ \A i \in 1..Len(mock_tables.AI_Memories) :
                IF mock_tables.AI_Memories[i].Memory_ID \in ReturnedIds(result'.data)
                THEN /\ mock_tables'.AI_Memories[i].Times_Recalled
                           = mock_tables.AI_Memories[i].Times_Recalled + 1
                     /\ mock_tables'.AI_Memories[i].Last_Recalled = now
                ELSE mock_tables'.AI_Memories[i].Times_Recalled
                           = mock_tables.AI_Memories[i].Times_Recalled]_vars

\* the recall counter of the memory with the id in rows
Counter(rows, id) ==
    rows[CHOOSE i \in 1..Len(rows) : rows[i].Memory_ID = id].Times_Recalled

\* the answer to the same retrieve_memories call made once more, now
SecondRetrieval ==
    retrieve_memories_generic(backend, Bind("retrieve_memories", parameters), NoFault).value

\* second holds the memories of first, none with a smaller recall counter
SameRowsAgain(first, second) ==
    /\ AreMemories(second)
    /\ ReturnedIds(second) = ReturnedIds(first)
    /\ \A id \in ReturnedIds(first) : Counter(second, id) >= Counter(first, id)

TagMatches(related_to, tokens) ==
    \E t \in 1..Len(tokens) : str_contains(str_lower(related_to), str_lower(tokens[t]))

\* row a may precede row b: more recalls, or as many and recalled no earlier
MayPrecede(a, b) ==
    \/ a.Times_Recalled > b.Times_Recalled
    \/ /\ a.Times_Recalled = b.Times_Recalled
       /\ a.Last_Recalled[2] >= b.Last_Recalled[2]

\* C13: every row returned by retrieve_memories(agent, tags, limit) is owned
\* by agent and has a tag field that contains at least one of the
\* whitespace-separated tokens of tags (case-insensitive substring), and the
\* rows are ordered by recall count descending, then last-recalled descending.
RetrievedRowsMatch ==
    (/\ Invoked("retrieve_memories")
     /\ kind = "mock"
     /\ result.success
     /\ AreMemories(result.data))
    => /\ \A i \in 1..Len(result.data) :
             /\ result.data[i].Agent = parameters.agent_name
             /\ TagMatches(result.data[i].Related_To, str_split(parameters.related_to_tags))
       /\ \A i \in 1..(Len(result.data) - 1) : MayPrecede(result.data[i], result.data[i + 1])

\* no search_memories or retrieve_memories call made on the backend d
\* returns the memory with the id
LaterResultsOmit(d, id) ==
    \A a \in AgentNames :
        /\ id \notin ReturnedIds(
               search_memories(d, Bind("search_memories",
                                       [agent_name |-> a, search_text |-> <<"m", "o", "r", "t", "g", "a", "g", "e">>]),
                               NoFault).value)
        /\ id \notin ReturnedIds(
               retrieve_memories_generic(d, Bind("retrieve_memories",
                                                 [agent_name |-> a, related_to_tags |-> <<"s", "a", "l", "e", "s">>]),
                                         NoFault).value)

\* C14: after delete_memory(memoryId) returned deleted = true, the Memory row
\* with that id no longer exists: no later retrieve_memories or
\* search_memories result contains it, and all other Memory rows are
\* unchanged.
DeletedMemoryIsGone ==
    [][(/\ Pending
        /\ Returned'
        /\ kind = "mock"
        /\ tool_name = "delete_memory"
        /\ result'.success
        /\ "deleted" \in DOMAIN result'.data
        /\ result'.data.deleted = TRUE)
       => /\ parameters.memory_id \notin ReturnedIds(mock_tables'.AI_Memories)
          /\ LaterResultsOmit(backend', parameters.memory_id)
          /\ \A i \in 1..Len(mock_tables.AI_Memories) :
                mock_tables.AI_Memories[i].Memory_ID # parameters.memory_id
                   => \E j \in 1..Len(mock_tables'.AI_Memories) :
                         mock_tables'.AI_Memories[j] = mock_tables.AI_Memories[i]]_vars

\* the tools that only read
ReadOnlyTools ==
    {"connect_to_database", "list_databases", "get_schema_info", "describe_table",
     "get_table_relationships", "validate_sql", "check_permissions", "sample_table",
     "get_column_stats", "search_memories", "get_memory_stats"}

\* the call only asks the backend: it tests the connection or sends a SELECT
\* statement through sql_get
OnlyAsks(call) ==
    \/ call.method \in {"test_connection", "raise"}
    \/ call.method = "sql_get" /\ StartsWithSelect(call.arg)

\* C15: connect_to_database, list_databases, get_schema_info, describe_table,
\* get_table_relationships, validate_sql, check_permissions, sample_table,
\* get_column_stats, search_memories and get_memory_stats leave every Agent,
\* Message, Memory (recall counters included) and QueryHistory row unchanged:
\* the tables of the mock backend stay as they were and a database server is
\* only sent SELECT statements; validate_sql and check_permissions make no
\* backend call at all.
ReadOnlyToolsChangeNothing ==
    [][(Pending /\ Returned' /\ tool_name \in ReadOnlyTools)
       => /\ mock_tables' = mock_tables
          /\ \A i \in 1..Len(calls') : OnlyAsks(calls'[i])
          /\ tool_name \in {"validate_sql", "check_permissions"} => calls' = <<>>]_vars

\* search_memories returned memories of the mock backend after one query
MemoriesSearched ==
    /\ Invoked("search_memories")
    /\ kind = "mock"
    /\ result.success
    /\ ReturnedIds(result.data) = {1, 5}
    /\ Len(calls) = 1

\* the positions of the stored memories the agent owns
OwnedMemories(agent) ==
    {i \in 1..Len(mock_tables.AI_Memories) : mock_tables.AI_Memories[i].Agent = agent}

\* how often the tag occurs over the whitespace-split tag strings of the
\* memories at the positions
TagOccurrences(positions, tag) ==
    Cardinality({ij \in positions \X (1..50) :
                    /\ ij[2] <= Len(str_split(mock_tables.AI_Memories[ij[1]].Related_To))
                    /\ str_split(mock_tables.AI_Memories[ij[1]].Related_To)[ij[2]] = tag})

\* the statistics are those of the memories at the positions
StatsOf(stats, positions) ==
    /\ {"unused_memories", "max_recalls", "top_tags"} \subseteq DOMAIN stats
    /\ stats.unused_memories
          = Cardinality({i \in positions : mock_tables.AI_Memories[i].Times_Recalled = 0})
    /\ \E i \in positions : mock_tables.AI_Memories[i].Times_Recalled = stats.max_recalls
    /\ \A i \in positions : mock_tables.AI_Memories[i].Times_Recalled <= stats.max_recalls
    /\ Len(stats.top_tags) <= 5
    /\ \A t \in 1..Len(stats.top_tags) :
          /\ stats.top_tags[t][2] = TagOccurrences(positions, stats.top_tags[t][1])
          /\ t > 1 => stats.top_tags[t - 1][2] >= stats.top_tags[t][2]

\* C16: get_memory_stats(agentName) returns total_memories equal to the number
\* of Memory rows owned by agentName, unused_memories equal to the number of
\* those with recall counter 0, max_recalls equal to their maximum recall
\* counter, and top_tags holding at most 5 (tag, count) pairs sorted by
\* non-increasing count, each count being the number of occurrences of the
\* tag over the whitespace-split tag strings of that agent's memories.
MemoryStatsCount ==
    (/\ Invoked("get_memory_stats")
     /\ kind = "mock"
     /\ result.success
     /\ "error" \notin DOMAIN result.data)
    => /\ "total_memories" \in DOMAIN result.data
       /\ result.data.total_memories = Cardinality(OwnedMemories(parameters.agent_name))
       /\ OwnedMemories(parameters.agent_name) # {}
             => StatsOf(result.data, OwnedMemories(parameters.agent_name))

---------------------------------------------------------------------------
(* Properties of SchemaCompatibility.                                      *)

\* every key of the row is a mapped physical field of the table
AllMapped(database_type, table, row) ==
    \A i \in 1..Len(row) :
        \E j \in 1..Len(field_mappings(database_type, table)) :
            field_mappings(database_type, table)[j][2] = row[i][1]

\* no two logical fields of the table map to the same physical field
MapsOneToOne(mapping) ==
    \A i, j \in 1..Len(mapping) : mapping[i][2] = mapping[j][2] => i = j

\* C17: for each backend kind and each mapped table, converting a row whose
\* keys are all mapped physical fields to the standard names and back gives a
\* row with the same key/value pairs, and no two logical fields of a table
\* map to the same physical field.
FieldMappingRoundTrips ==
    /\ (pc = "physical" /\ AllMapped(kind, tool_name, parameters))
          => /\ Len(result) = Len(parameters)
             /\ {result[i] : i \in 1..Len(result)} = {parameters[i] : i \in 1..Len(parameters)}
    /\ \A table \in CompatTables : MapsOneToOne(field_mappings(kind, table))

\* a memory row read from SQL Server went to the standard names and back
MemoryRowRoundTripped ==
    /\ pc = "physical"
    /\ kind = "sqlserver"
    /\ tool_name = "ai_memories"
    /\ Len(parameters) = 9
    /\ result = parameters

---------------------------------------------------------------------------
(* Properties of the backends.                                             *)

RECURSIVE Doubled(_)
\* the text with every single quote written twice
Doubled(text) ==
    IF text = <<>> THEN <<>>
    ELSE (IF Head(text) = "'" THEN <<"'", "'">> ELSE <<Head(text)>>) \o Doubled(Tail(text))

\* the escaping the three backends give to the arguments
EscapedBy(data, quote) ==
    {MockDataLink_sql_escape(data, quote), PostgreSQLDataLink_sql_escape(data, quote),
     DataLink_sql_escape(data, quote)}

\* C18: sql_escape maps None to the unquoted literal NULL regardless of the
\* quote flag; any other value it stringifies, doubles every embedded single
\* quote of, and wraps in single quotes exactly when quote is true (O'Brien
\* gives 'O''Brien', it's with quote=False gives it''s, 123 gives '123'); the
\* three backends return the same text for every input.
EscapeQuotes ==
    pc = "escaped" =>
        /\ EscapedBy(parameters.data, parameters.quote) = {result}
        /\ parameters.data.type = "NoneType" => result = <<"N", "U", "L", "L">>
        /\ (parameters.data.type # "NoneType" /\ parameters.quote)
              => result = <<"'">> \o Doubled(py_str(parameters.data)) \o <<"'">>
        /\ (parameters.data.type # "NoneType" /\ ~parameters.quote)
              => result = Doubled(py_str(parameters.data))
        /\ (parameters = [data |-> [type |-> "str", v |-> <<"O", "'", "B", "r", "i", "e", "n">>], quote |-> TRUE])
              => result = <<"'", "O", "'", "'", "B", "r", "i", "e", "n", "'">>
        /\ (parameters = [data |-> [type |-> "str", v |-> <<"i", "t", "'", "s">>], quote |-> FALSE])
              => result = <<"i", "t", "'", "'", "s">>
        /\ (parameters = [data |-> [type |-> "int", n |-> 123], quote |-> TRUE])
              => result = <<"'", "1", "2", "3", "'">>

\* the PostgreSQL backend escaped a text that holds two single quotes
QuotesEscaped ==
    /\ pc = "escaped"
    /\ kind = "postgresql"
    /\ parameters.data = [type |-> "str", v |-> <<"D", "o", "n", "'", "t", " ", "d", "o", " ", "'", "t", "h", "i", "s", "'">>]
    /\ parameters.quote
    /\ result = <<"'", "D", "o", "n", "'", "'", "t", " ", "d", "o", " ", "'", "'", "t", "h", "i", "s", "'", "'", "'">>

\* a stored row matches the row given on the key columns
MatchesOn(key, stored, row) ==
    \A i \in 1..Len(key) :
        /\ key[i] \in DOMAIN stored
        /\ key[i] \in DOMAIN row
        /\ stored[key[i]] = row[key[i]]

\* the stored row with the columns of the row given overwritten
Overwritten(stored, row) ==
    [col \in DOMAIN stored \cup DOMAIN row |-> IF col \in DOMAIN row THEN row[col] ELSE stored[col]]

RECURSIVE UpsertedInto(_, _, _)
\* the table after each row given overwrote the stored rows it matches on the
\* key columns or, matching none, was appended
UpsertedInto(rows, data, key) ==
    IF data = <<>> THEN rows
    ELSE UpsertedInto(
             IF \E i \in 1..Len(rows) : MatchesOn(key, rows[i], Head(data))
             THEN [i \in 1..Len(rows) |->
                      IF MatchesOn(key, rows[i], Head(data))
                      THEN Overwritten(rows[i], Head(data)) ELSE rows[i]]
             ELSE Append(rows, Head(data)),
             Tail(data), key)

\* the call with empty key columns did what sql_insert does: it left the
\* tables sql_insert leaves or (the table being on the server) it went
\* through sql_insert
LikeInsert(p) ==
    IF kind = "mock"
    THEN mock_tables' = mock_sql_insert(backend, p.table_name, p.data).d.mock_tables
    ELSE \E i \in 1..Len(calls') : calls'[i].method = "sql_insert"

\* C19: sql_upsert with key columns leaves the table such that each row given
\* has overwritten the non-key columns of the stored row matching it on the
\* key columns (no row added) or, matching none, has been appended as one new
\* row; with no key columns it does what sql_insert does; upserting the same
\* rows again leaves the table as the first upsert left it.
UpsertOverwritesOrAppends ==
    [][(Idle /\ pc' = "upserted" /\ ~result'.raised) =>
          /\ (kind = "mock" /\ parameters'.key # <<>>) =>
                /\ mock_tables'.AI_Messages
                      = UpsertedInto(mock_tables.AI_Messages, parameters'.data, parameters'.key)
                /\ MockDataLink_sql_upsert(backend', parameters'.table_name, parameters'.data,
                                           parameters'.key).d.mock_tables = mock_tables'
          /\ parameters'.key = <<>> => LikeInsert(parameters')]_vars

---------------------------------------------------------------------------
(* Properties of the three providers.                                      *)

\* the provider of configuration k, as constructed
ProviderOf(k) ==
    [kind |-> k,
     mock_tables |-> IF k = "mock" THEN _init_mock_data
                     ELSE [AI_Agents |-> <<>>, AI_Messages |-> <<>>,
                           AI_Memories |-> <<>>, AI_Query_History |-> <<>>],
     log_entries |-> <<>>, wasError |-> FALSE, calls |-> <<>>]

\* the envelope the provider of configuration k returns for the call
EnvelopeOf(k, name, params) == execute_tool(ProviderOf(k), name, params, NoFault).result

\* the envelope reports an unknown tool
ReportsUnknown(e) == "available_tools" \in DOMAIN e

\* two envelopes agree on the tool being unknown and on the tools available
AgreeOnTool(a, b) ==
    /\ ReportsUnknown(a) <=> ReportsUnknown(b)
    /\ (ReportsUnknown(a) /\ ReportsUnknown(b)) => a.available_tools = b.available_tools

\* C20: the three providers register the same tool names: for every tool name
\* execute_tool reports "Unknown tool" on all three or on none, and the list
\* of available tools returned for an unknown name is the same on all three.
ProvidersRegisterSameTools ==
    Returned =>
        \A k \in {"mock", "postgresql", "sqlserver"} :
            AgreeOnTool(result, EnvelopeOf(k, tool_name, parameters))

---------------------------------------------------------------------------
(* Properties of the message log.                                          *)

\* the stored messages whose sender and recipient are a and b, either way
\* round, by their positions in the table
Between(rows, a, b) ==
    {i \in 1..Len(rows) :
        \/ rows[i].User_From = a /\ rows[i].User_To = b
        \/ rows[i].User_From = b /\ rows[i].User_To = a}

\* the ids of rows, in their order
IdsOf(rows) == [i \in 1..Len(rows) |-> rows[i].Message_ID]

\* no row comes before a newer one
NewestFirst(rows) ==
    \A i \in 1..Len(rows) : \A j \in i..Len(rows) : rows[i].Posted[2] >= rows[j].Posted[2]

\* C21: on the mock backend, after any sequence of message inserts, the query
\* of the conversation of A and B returns exactly the stored messages whose
\* sender and recipient are A and B or B and A, in insertion order when the
\* query has no ORDER BY and newest first with ORDER BY posted DESC.
ConversationReturned ==
    (pc = "listed" /\ kind = "mock" /\ ~result.raised) =>
        /\ {result.value[i].Message_ID : i \in 1..Len(result.value)}
              = {mock_tables.AI_Messages[i].Message_ID :
                    i \in Between(mock_tables.AI_Messages, parameters.agent,
                                  parameters.current_user)}
        /\ Len(result.value)
              = Cardinality(Between(mock_tables.AI_Messages, parameters.agent,
                                    parameters.current_user))
        /\ parameters.shape = "plain"
              => IdsOf(result.value)
                    = IdsOf(select_rows(mock_tables.AI_Messages,
                                        Between(mock_tables.AI_Messages, parameters.agent,
                                                parameters.current_user)))
        /\ parameters.shape = "ordered" => NewestFirst(result.value)


---------------------------------------------------------------------------
(* Properties of the query history.                                        *)

\* the insert of the history entry raised
HistoryInsertRaised ==
    \E i \in 1..(Len(calls) - 1) :
        calls[i].method = "sql_insert" /\ calls[i + 1].method = "raise"

---------------------------------------------------------------------------
(* Properties of the statements built for a database type.                 *)

\* the listed fields under their physical names, or * when none is listed
SelectedText(k, p) ==
    IF p.fields.type = "list" /\ p.fields.items # <<>>
    THEN str_join(<<",", " ">>,
                  [i \in 1..Len(p.fields.items) |-> get_field_name(k, p.table, p.fields.items[i])])
    ELSE <<"*">>

\* the statement from FROM on: the physical table, then the WHERE and ORDER BY
\* text as given
FromOn(k, p) ==
    <<" ", "F", "R", "O", "M", " ">> \o get_table_name(k, p.table)
    \o (IF p.where_clause = <<>> THEN <<>>
        ELSE <<" ", "W", "H", "E", "R", "E", " ">> \o p.where_clause)
    \o (IF p.order_by = <<>> THEN <<>>
        ELSE <<" ", "O", "R", "D", "E", "R", " ", "B", "Y", " ">> \o p.order_by)

Select == <<"S", "E", "L", "E", "C", "T", " ">>

\* the WHERE or ORDER BY text contains SELECT followed by the field list
NestedSelect(k, p) ==
    \/ str_contains(p.where_clause, Select \o SelectedText(k, p))
    \/ str_contains(p.order_by, Select \o SelectedText(k, p))

\* C23: build_select_query with limit > 0 gives, for sqlserver, one TOP n
\* right after the leading SELECT and no LIMIT clause (when the WHERE and
\* ORDER BY text does not contain SELECT and the field list), and for mock and
\* postgresql a statement ending in LIMIT n with no TOP; with limit <= 0 no
\* row limit is emitted; the table and the listed fields appear under their
\* physical names and the WHERE and ORDER BY text is passed through unchanged.
SelectBuiltForKind ==
    (pc = "built" /\ tool_name = "build_select_query") =>
        /\ parameters.limit <= 0
              => result = Select \o SelectedText(kind, parameters) \o FromOn(kind, parameters)
        /\ (parameters.limit > 0 /\ kind # "sqlserver")
              => result = Select \o SelectedText(kind, parameters) \o FromOn(kind, parameters)
                          \o <<" ", "L", "I", "M", "I", "T", " ">> \o str_of_int(parameters.limit)
        /\ (parameters.limit > 0 /\ kind = "sqlserver" /\ ~NestedSelect(kind, parameters))
              => result = Select \o <<"T", "O", "P", " ">> \o str_of_int(parameters.limit) \o <<" ">>
                          \o SelectedText(kind, parameters) \o FromOn(kind, parameters)

\* a statement for sqlserver with three fields, a nested SELECT in its WHERE
\* text and a limit of 10
TopBuilt ==
    /\ pc = "built" /\ tool_name = "build_select_query" /\ kind = "sqlserver"
    /\ parameters.limit = 10 /\ parameters.fields.type = "list"
    /\ Len(parameters.fields.items) = 3
    /\ str_contains(parameters.where_clause, Select)
    /\ ~NestedSelect(kind, parameters)
    /\ str_startswith(result, <<"S", "E", "L", "E", "C", "T", " ", "T", "O", "P", " ", "1", "0", " ", "A", "g", "e", "n", "t", ",">>)

---------------------------------------------------------------------------
(* Properties of the log.                                                  *)

\* the last n items of s, all of them when it has fewer
LastOf(s, n) == [i \in 1..(IF n < Len(s) THEN n ELSE Len(s)) |->
                    s[Len(s) - (IF n < Len(s) THEN n ELSE Len(s)) + i]]

\* C24: after any sequence of log calls, direct or made by a query, the log
\* buffer holds at most LogCap entries and they are the most recent entries
\* in the order they were logged; read_log(n) returns the last min(n, size)
\* entries for n > 0 and an empty list for n <= 0.
LogKeepsMostRecent ==
    /\ Len(log_entries) <= LogCap
    /\ log_entries = LastOf(parameters, LogCap)
    /\ tool_name = "read_log" =>
          result.entries = (IF result.num > 0 THEN LastOf(log_entries, result.num) ELSE <<>>)

\* more entries were logged than the buffer holds, and read_log(1) returned
\* the newest of them
OldestDropped ==
    /\ Len(parameters) > LogCap
    /\ parameters[1] # parameters[Len(parameters)]
    /\ tool_name = "read_log" /\ result.num = 1
    /\ result.entries = <<parameters[Len(parameters)]>>

---------------------------------------------------------------------------
(* Properties of the connection of a network backend.                      *)

\* C25: a _get_connection call that finds no usable cached connection makes
\* at most 3 connection attempts, waits 1 and then 2 between failed attempts
\* and not after the last, and ends by returning a connection or by raising
\* after the third failed attempt; it never returns without a connection,
\* whatever the instance list is.
ConnectsOrRaises ==
    \A c \in Callers :
        /\ pc[c].attempt <= 3
        /\ pc[c].slept \in {<<>>, <<1>>, <<1, 2>>}
        /\ pc[c].at = "raised" => (pc[c].attempt = 2 /\ pc[c].slept = <<1, 2>>)
        /\ pc[c].at = "returned" => pc[c].value # 0

\* C26: a network backend holds at most one open connection per database
\* key at any time, also when several callers use the backend concurrently.
OneLiveConnection == Cardinality(result.open) <= 1

---------------------------------------------------------------------------
(* Properties of the chunked insert.                                       *)

\* the statements issued, in order
Issued == SelectSeq(calls, LAMBDA e : e.method \in {"sql_run", "execute"})

\* ceil(n / c)
CeilDiv(n, c) == (n + c - 1) \div c

\* rows (k - 1) * c + 1 .. min(k * c, N) of the data
ChunkK(data, c, k) ==
    SubSeq(data, (k - 1) * c + 1, IF k * c < Len(data) THEN k * c ELSE Len(data))

\* the statement carries exactly the rows of the chunk, under the columns of
\* its first row: as literals in the text, or as the values bound to it
Carries(e, table_name, chunk) ==
    IF e.method = "sql_run" THEN e.arg = chunk_sql(table_name, chunk)
    ELSE /\ e.values = flat_values(chunk, row_keys(chunk[1]))
         /\ str_startswith(e.arg, <<"I", "N", "S", "E", "R", "T", " ", "I", "N", "T", "O", " ">> \o table_name
                                  \o <<" ", "(">> \o joined_columns(row_keys(chunk[1])) \o <<")", " ">>)

\* the text of the statement for the chunk as it is issued when run is set
StatementText(k, table_name, chunk, last_chunk) ==
    IF k = "postgresql" THEN pg_chunk_sql(table_name, chunk, last_chunk)
    ELSE chunk_sql(table_name, chunk)

\* C27: sql_insert of N > 0 rows with chunk size c issues ceil(N / c) INSERT
\* statements in input order, each with at most c rows, which together carry
\* every row once; with run=False it returns the generated SQL and executes
\* nothing; when the statement of chunk k fails, the chunks before k were
\* issued and those after k are not attempted.
InsertInChunks ==
    (pc = "upserted" /\ tool_name = "sql_insert" /\ parameters.data # <<>>) =>
        /\ ~parameters.run =>
              /\ Issued = <<>>
              /\ ~result.raised
              /\ \A k \in 1..CeilDiv(Len(parameters.data), parameters.chunk_size) :
                    str_contains(result.value,
                                 StatementText(kind, parameters.table_name,
                                     ChunkK(parameters.data, parameters.chunk_size, k),
                                     ChunkK(parameters.data, parameters.chunk_size,
                                            CeilDiv(Len(parameters.data), parameters.chunk_size))))
        /\ parameters.run =>
              /\ Len(Issued) <= CeilDiv(Len(parameters.data), parameters.chunk_size)
              /\ ~result.raised => Len(Issued) = CeilDiv(Len(parameters.data), parameters.chunk_size)
              /\ \A k \in 1..Len(Issued) :
                    Carries(Issued[k], parameters.table_name,
                            ChunkK(parameters.data, parameters.chunk_size, k))

---------------------------------------------------------------------------
(* Properties of the ids of stored memories.                               *)

\* the call recorded in e answered stored = true
AnsweredStored(e) == e.returned.success /\ "stored" \in DOMAIN e.returned.data

\* the id query of the call recorded in e asks for the agent and the label given
AsksForStored(e) ==
    \E i \in 1..Len(e.calls) :
        /\ e.calls[i].method = "sql_get"
        /\ str_contains(e.calls[i].arg, <<"'">> \o e.agent_name \o <<"'">>)
        /\ str_contains(e.calls[i].arg, <<"'">> \o e.memory_label \o <<"'">>)

\* C28: the memory_id values returned by successive successful store_memory
\* calls on a provider are pairwise distinct, and each is the id of the
\* memory row the call inserted.
MemoryIdsOwnRows ==
    tool_name = "store_memory" =>
        \A i \in 1..Len(parameters) :
            AnsweredStored(parameters[i]) =>
                IF kind = "mock"
                THEN /\ \A j \in 1..(i - 1) :
                           AnsweredStored(parameters[j]) =>
                               parameters[j].returned.data.memory_id
                                   # parameters[i].returned.data.memory_id
                     /\ \E m \in 1..Len(mock_tables.AI_Memories) :
                           /\ mock_tables.AI_Memories[m].Memory_ID
                                 = parameters[i].returned.data.memory_id
                           /\ mock_tables.AI_Memories[m].Agent = parameters[i].agent_name
                           /\ mock_tables.AI_Memories[m].Memory_Label = parameters[i].memory_label
                ELSE AsksForStored(parameters[i])

---------------------------------------------------------------------------
(* Properties of the memories recalled.                                    *)

\* C29: for every agent, tag or search text and limit > 0, retrieve_memories
\* and search_memories return at most limit rows and no row of another
\* agent, also when the text holds words of SQL such as limit, order by or
\* where.
RecallWithinLimit ==
    (pc = "recalled" /\ kind = "mock" /\ result.success /\ parameters.limit > 0) =>
        /\ Len(result.data) <= parameters.limit
        /\ \A i \in 1..Len(result.data) :
              "Agent" \in DOMAIN result.data[i] => result.data[i].Agent = parameters.agent_name

---------------------------------------------------------------------------
(* Properties of the polling flow.                                         *)

\* the stored messages with the id
WithId(id) ==
    {m \in 1..Len(mock_tables.AI_Messages) : mock_tables.AI_Messages[m].Message_ID = id}

\* every message marked read has its read timestamp set
MarkedAreRead ==
    \A id \in result.marked : \A m \in WithId(id) : mock_tables.AI_Messages[m].User_Read # None

\* no message was answered twice
AnsweredOnce ==
    \A i \in 1..Len(result.answered) : \A j \in 1..(i - 1) :
        result.answered[i] # result.answered[j]

\* C30: once an agent has answered a message and sent mark_read for its id,
\* the read timestamp of the message is set and check_messages returns it no
\* more, so over any number of polling cycles each message is answered at
\* most once; no message is deleted and the message ids stay distinct.
AnsweredAtMostOnce ==
    /\ MarkedAreRead
    /\ AnsweredOnce
    /\ \A id \in result.marked : WithId(id) # {}
    /\ \A m \in 1..Len(mock_tables.AI_Messages) : WithId(mock_tables.AI_Messages[m].Message_ID) = {m}
    /\ Len(mock_tables.AI_Messages) >= Len(_init_mock_data.AI_Messages) + Len(result.answered)
====
